---- MODULE Spec2Model ----
(***************************************************************************)
(* LED-Rails backend: the per-network ingestion pipeline (entity store,    *)
(* train filter, coupled-pair detector, roster sync, block assignment,     *)
(* alt-block pass, LED generator) and the timer/HTTP host around it.       *)
(*                                                                         *)
(* Conventions of the model                                                *)
(*  - Coordinates are integers in metres on a local tangent grid; on such  *)
(*    a grid the great-circle distance of calculateDistance is the         *)
(*    Euclidean distance (rounded down to a whole metre).                  *)
(*  - Times are whole epoch seconds.                                       *)
(*  - An absent number (JavaScript undefined) is Undefined; an absent      *)
(*    array is the empty sequence where the code never produces an empty   *)
(*    array for that field.                                                *)
(*  - Vehicle and entity ids are equal-length digit strings, modelled by   *)
(*    their number, for which numeric order is the string order used by    *)
(*    Array.prototype.sort.                                                *)
(***************************************************************************)
EXTENDS Integers, Sequences, FiniteSets, TLC

VARIABLES
    scenario,           \* which bounded input family drives this behaviour
    feedIds,            \* how the feed names its entities
    trackBlocks,        \* RailNetwork.trackBlocks, in Map iteration order
    config,             \* RailNetwork.config (the parts the pipeline reads)
    entities,           \* RailNetwork.entities (entity store)
    trainEntities,      \* RailNetwork.trainEntities (filtered train set)
    trainPairs,         \* RailNetwork.trainPairs
    invisibleTrains,    \* RailNetwork.invisibleTrains
    trackedTrains,      \* RailNetwork.trackedTrains (roster)
    ledRailsAPIs,       \* RailNetwork.ledRailsAPIs (one per board revision)
    now,                \* the wall clock, epoch seconds
    ticks,              \* number of timer ticks fired so far
    event,              \* the handler that ran last
    isFetchInProgress,  \* the re-entrancy guard of refreshRealtimeData
    inFlight,           \* runs of the pipeline started and not yet finished
    pc,                 \* where the JavaScript thread is inside a run
    board,              \* index of the board revision generateLedMap works on
    pending,            \* start times of the runs waiting for their fetch
    observed,           \* what the last HTTP read of a board output returned
    published,          \* complete outputs of the last two runs, per board
    process,            \* "starting", "running" or "exited"
    replies             \* what the feed URLs answered to the last fetch

vars == <<scenario, feedIds, board, trackBlocks, config, entities, trainEntities, trainPairs,
          invisibleTrains, trackedTrains, ledRailsAPIs, now, ticks, event,
          isFetchInProgress, inFlight, pc, pending, observed, published,
          process, replies>>

----------------------------------------------------------------------------
(* Values standing for JavaScript undefined, '' and 'UNKNOWN'.              *)

Undefined == -1
NaN == -2
UndefinedStr == "<undefined>"
EmptyId == 0
UNKNOWN == 100000
OUT_OF_SERVICE == "OUT-OF-SERVICE"

Truthy(n) == n /= Undefined /\ n /= 0
TruthyStr(s) == s /= UndefinedStr /\ s /= ""

----------------------------------------------------------------------------
(* Program constants.                                                       *)

minSpeed == 3
maxSpeed == 35
trainLength == 72
maxSpeedDiff == 3
maxBearingDiff == 5
maxDistance == 2000
PairFreshSeconds == 30
DefaultDisplayThreshold == 300
FetchIntervalSeconds == 20
StopsWindowSeconds == 600

----------------------------------------------------------------------------
(* Bounds of the model.                                                     *)

MaxTicks == 3

\* The platform tokens 'Ndeg' of the model have -MaxDegrees <= N <= MaxDegrees.
MaxDegrees == 800

\* The boards of the time offset scenario have 1 <= updateInterval <= MaxInterval.
MaxInterval == 6

----------------------------------------------------------------------------
(* Sequence helpers.                                                        *)

Range(s) == {s[i] : i \in DOMAIN s}

Abs(x) == IF x < 0 THEN -x ELSE x
Max(a, b) == IF a > b THEN a ELSE b
Min(a, b) == IF a < b THEN a ELSE b

\* Array.prototype.findIndex on a predicate given as the set of matching
\* indices: the smallest matching index, 0 if there is none.
FirstIndex(matching) ==
    IF matching = {} THEN 0
    ELSE CHOOSE i \in matching : \A j \in matching : i <= j

----------------------------------------------------------------------------
(* Geometry.                                                                *)

calculateDistance(lat1, lon1, lat2, lon2) ==
    IF lon1 = lon2 THEN Abs(lat1 - lat2)
    ELSE IF lat1 = lat2 THEN Abs(lon1 - lon2)
    ELSE LET dLat == Abs(lat1 - lat2)
             dLon == Abs(lon1 - lon2)
             sq == dLat * dLat + dLon * dLon
         IN CHOOSE r \in Max(dLat, dLon)..(dLat + dLon) :
                r * r <= sq /\ (r + 1) * (r + 1) > sq

calculateBearingDifference(bearing1, bearing2) ==
    LET diff == Abs(bearing1 - bearing2)
    IN Min(diff, 360 - diff)

\* Ray casting.  Edge i runs from vertex j (the previous vertex, the last one
\* for i = 1) to vertex i.  pointLng < intersectionLng is decided without
\* division by multiplying through with lat_j - lat_i.
EdgeCrossed(pointLat, pointLng, polygon, i) ==
    LET j == IF i = 1 THEN Len(polygon) ELSE i - 1
        lat_i == polygon[i][1]
        lng_i == polygon[i][2]
        lat_j == polygon[j][1]
        lng_j == polygon[j][2]
        isLatBetweenEdgePoints == (lat_i > pointLat) /= (lat_j > pointLat)
        d == lat_j - lat_i
        n == (lng_j - lng_i) * (pointLat - lat_i)
    IN /\ lat_j /= lat_i
       /\ isLatBetweenEdgePoints
       /\ IF d > 0 THEN (pointLng - lng_i) * d < n
                   ELSE (pointLng - lng_i) * d > n

isPointInPolygon(pointLat, pointLng, polygon) ==
    IF Len(polygon) < 3 THEN FALSE
    ELSE Cardinality({i \in 1..Len(polygon) :
                        EdgeCrossed(pointLat, pointLng, polygon, i)}) % 2 = 1

calculatedSpeed(lat1, lon1, lat2, lon2, time1, time2) ==
    LET distanceMeters == calculateDistance(lat1, lon1, lat2, lon2)
        timeDeltaSeconds == time2 - time1
    IN IF timeDeltaSeconds > 0 THEN distanceMeters \div timeDeltaSeconds ELSE 0

----------------------------------------------------------------------------
(* Route names.  String.includes and String.localeCompare are tabulated for *)
(* the route names and route filters that occur in the model.               *)

RouteNames == <<"", "EAST-201", "WEST-201", OUT_OF_SERVICE>>

RouteRank(r) == FirstIndex({i \in DOMAIN RouteNames : RouteNames[i] = r})

localeCompare(a, b) == RouteRank(a) - RouteRank(b)

Includes(route, part) ==
    \/ route = part
    \/ part = ""
    \/ <<route, part>> \in {<<"EAST-201", "EAST">>, <<"WEST-201", "WEST">>,
                            <<"EAST-201", "201">>, <<"WEST-201", "201">>}

----------------------------------------------------------------------------
(* Track blocks.                                                            *)

\* TrackBlockMap.get
BlockGet(blocks, blockNumber) ==
    FirstIndex({i \in DOMAIN blocks : blocks[i].blockNumber = blockNumber})

RouteAllowed(routes, route) ==
    routes = <<>> \/ \E i \in DOMAIN routes : Includes(route, routes[i])

trainInBlock(blocks, train, blockNumber) ==
    LET k == BlockGet(blocks, blockNumber)
    IN IF k = 0 THEN FALSE
       ELSE IF ~RouteAllowed(blocks[k].routes, train.route) THEN FALSE
       ELSE isPointInPolygon(train.latitude, train.longitude, blocks[k].polygon)

----------------------------------------------------------------------------
(* Roster sync.                                                             *)
(*                                                                          *)
(* A feed entity is a record                                                *)
(*   [id, vid, latitude, longitude, speed, bearing, timestamp, route_id,    *)
(*    routeId, trip_id, hasTripUpdate, stopTimeUpdate]                      *)
(* (vid is vehicle.vehicle.id); a stop time update is                       *)
(*   [stopId, departure, arrival].                                          *)

TrainIdOf(gtfsTrain) ==
    IF gtfsTrain.vid = Undefined THEN UNKNOWN ELSE gtfsTrain.vid

RouteOf(gtfsTrain) ==
    IF gtfsTrain.route_id /= UndefinedStr THEN gtfsTrain.route_id
    ELSE IF gtfsTrain.routeId /= UndefinedStr THEN gtfsTrain.routeId
    ELSE OUT_OF_SERVICE

TimestampOf(gtfsTrain) ==
    IF gtfsTrain.timestamp = Undefined THEN 0 ELSE gtfsTrain.timestamp

newDepartureTime(stu) ==
    IF Truthy(stu.departure) THEN stu.departure
    ELSE IF stu.arrival = Undefined THEN NaN ELSE stu.arrival

RECURSIVE UpsertStops(_, _, _)
UpsertStops(stops, tripUpdate, k) ==
    IF k > Len(tripUpdate) THEN stops
    ELSE LET stu == tripUpdate[k]
             t == newDepartureTime(stu)
             existing == FirstIndex({i \in DOMAIN stops :
                                        stops[i].stopId = stu.stopId})
         IN IF existing /= 0
            THEN UpsertStops([stops EXCEPT ![existing].departureTime = t],
                             tripUpdate, k + 1)
            ELSE UpsertStops(Append(stops,
                                    [stopId |-> stu.stopId, departureTime |-> t]),
                             tripUpdate, k + 1)

StopKept(s, clock) ==
    /\ s.departureTime /= NaN
    /\ \/ s.departureTime = 0
       \/ s.departureTime >= clock - StopsWindowSeconds

\* The result is undefined (the empty sequence) when no stop is left.
addNewStopsFromTripUpdate(stops, hasTripUpdate, tripUpdate, clock) ==
    IF hasTripUpdate
    THEN SelectSeq(UpsertStops(stops, tripUpdate, 1),
                   LAMBDA s : StopKept(s, clock))
    ELSE stops

updateExistingTrainPosition(trackedTrain, gtfsTrain, clock) ==
    IF gtfsTrain.latitude /= trackedTrain.latitude
       \/ gtfsTrain.longitude /= trackedTrain.longitude
    THEN LET reported == gtfsTrain.speed
             smooth == Truthy(reported) /\ reported = 0 /\ trackedTrain.speed = 0
             newSpeed ==
                 IF Truthy(reported) THEN reported
                 ELSE calculatedSpeed(trackedTrain.latitude, trackedTrain.longitude,
                                      gtfsTrain.latitude, gtfsTrain.longitude,
                                      trackedTrain.timestamp, TimestampOf(gtfsTrain))
             newLat ==
                 IF Truthy(reported)
                 THEN IF smooth
                      THEN (19 * trackedTrain.latitude + gtfsTrain.latitude) \div 20
                      ELSE trackedTrain.latitude
                 ELSE gtfsTrain.latitude
             newLon ==
                 IF Truthy(reported)
                 THEN IF smooth
                      THEN (19 * trackedTrain.longitude + gtfsTrain.longitude) \div 20
                      ELSE trackedTrain.longitude
                 ELSE gtfsTrain.longitude
             newBearing ==
                 IF newSpeed > 4 /\ newSpeed < 55 THEN gtfsTrain.bearing
                 ELSE trackedTrain.bearing
         IN [trackedTrain EXCEPT
                !.latitude = newLat,
                !.longitude = newLon,
                !.bearing = newBearing,
                !.speed = newSpeed,
                !.timestamp = TimestampOf(gtfsTrain),
                !.route = RouteOf(gtfsTrain),
                !.tripId = gtfsTrain.trip_id,
                !.stops = addNewStopsFromTripUpdate(trackedTrain.stops,
                              gtfsTrain.hasTripUpdate, gtfsTrain.stopTimeUpdate, clock)]
    ELSE trackedTrain

addNewTrain(gtfsTrain, clock) ==
    [trainId |-> TrainIdOf(gtfsTrain),
     latitude |-> gtfsTrain.latitude,
     longitude |-> gtfsTrain.longitude,
     timestamp |-> TimestampOf(gtfsTrain),
     speed |-> gtfsTrain.speed,
     bearing |-> gtfsTrain.bearing,
     route |-> RouteOf(gtfsTrain),
     currentBlock |-> Undefined,
     previousBlock |-> Undefined,
     tripId |-> gtfsTrain.trip_id,
     stops |-> addNewStopsFromTripUpdate(<<>>, gtfsTrain.hasTripUpdate,
                                         gtfsTrain.stopTimeUpdate, clock)]

FindTrain_None(trains, trainId) == 0

\* trackedTrains.find(t => t.trainId === trainId); 0 when there is none.
FindTrain(trains, trainId) ==
    FirstIndex({i \in DOMAIN trains : trains[i].trainId = trainId})

RECURSIVE syncTrainData(_, _, _, _)
syncTrainData(trains, gtfsTrains, k, clock) ==
    IF k > Len(gtfsTrains) THEN trains
    ELSE LET gtfsTrain == gtfsTrains[k]
             existingTrain == FindTrain(trains, TrainIdOf(gtfsTrain))
         IN IF existingTrain /= 0
            THEN syncTrainData(
                     [trains EXCEPT ![existingTrain] =
                         updateExistingTrainPosition(trains[existingTrain],
                                                     gtfsTrain, clock)],
                     gtfsTrains, k + 1, clock)
            ELSE syncTrainData(Append(trains, addNewTrain(gtfsTrain, clock)),
                               gtfsTrains, k + 1, clock)

----------------------------------------------------------------------------
(* Block assignment.                                                        *)
(*                                                                          *)
(* A track block is [blockNumber, altBlock, priority, routes, polygon,      *)
(* platforms]; a platform is [blockNumber, stop_ids, isDefault, bearing,    *)
(* routes].  A roster entry (TrainInfo) is the record built by addNewTrain. *)

setTrainBlock_ShiftOnly(train, blockNumber) ==
    [train EXCEPT !.previousBlock = train.currentBlock,
                  !.currentBlock = blockNumber]

setTrainBlock(train, blockNumber) ==
    [train EXCEPT
        !.previousBlock = IF train.previousBlock = Undefined THEN 0
                          ELSE train.currentBlock,
        !.currentBlock = blockNumber]

ClearBlocks_Sentinel(train) ==
    [train EXCEPT !.currentBlock = 0, !.previousBlock = 0]

ClearBlocks(train) ==
    [train EXCEPT !.currentBlock = Undefined, !.previousBlock = Undefined]

StopPlatform_None(platforms, train) == 0

\* 1: the first platform whose stop_ids meet the stops of the train.
StopPlatform(platforms, train) ==
    FirstIndex({i \in DOMAIN platforms :
        /\ RouteAllowed(platforms[i].routes, train.route)
        /\ train.stops /= <<>>
        /\ \E a \in DOMAIN platforms[i].stop_ids, b \in DOMAIN train.stops :
              platforms[i].stop_ids[a] = train.stops[b].stopId})

\* 2: default platforms with a bearing; the bearing of the train is reduced
\* modulo 360 at every such platform it is compared with.
RECURSIVE BearingPlatform(_, _, _)
BearingPlatform(platforms, train, k) ==
    IF k > Len(platforms) THEN [train |-> train, chosen |-> 0]
    ELSE LET platform == platforms[k]
         IN IF /\ RouteAllowed(platform.routes, train.route)
               /\ platform.isDefault
               /\ Truthy(platform.bearing)
               /\ Truthy(train.bearing)
            THEN LET turned == [train EXCEPT !.bearing = train.bearing % 360]
                     bearingDiff == Abs(platform.bearing - turned.bearing)
                     normalizedBearingDiff ==
                         IF bearingDiff > 180 THEN 360 - bearingDiff
                         ELSE bearingDiff
                 IN IF normalizedBearingDiff <= 90
                    THEN [train |-> turned, chosen |-> k]
                    ELSE BearingPlatform(platforms, turned, k + 1)
            ELSE BearingPlatform(platforms, train, k + 1)

\* 3: the first default platform without a bearing.
DefaultPlatform(platforms, train) ==
    FirstIndex({i \in DOMAIN platforms :
        /\ RouteAllowed(platforms[i].routes, train.route)
        /\ platforms[i].isDefault
        /\ ~Truthy(platforms[i].bearing)})

RECURSIVE findAndSetTrainBlock(_, _, _)
findAndSetTrainBlock(blocks, train, k) ==
    IF k > Len(blocks) THEN ClearBlocks(train)
    ELSE LET block == blocks[k]
         IN IF ~trainInBlock(blocks, train, block.blockNumber)
            THEN findAndSetTrainBlock(blocks, train, k + 1)
            ELSE IF block.platforms = <<>>
            THEN setTrainBlock(train, block.blockNumber)
            ELSE LET byStop == StopPlatform(block.platforms, train)
                     byBearing == BearingPlatform(block.platforms, train, 1)
                     byDefault == DefaultPlatform(block.platforms, byBearing.train)
                 IN IF byStop /= 0
                    THEN setTrainBlock(train, block.platforms[byStop].blockNumber)
                    ELSE IF byBearing.chosen /= 0
                    THEN setTrainBlock(byBearing.train,
                             block.platforms[byBearing.chosen].blockNumber)
                    ELSE IF byDefault /= 0
                    THEN setTrainBlock(byBearing.train,
                             block.platforms[byDefault].blockNumber)
                    ELSE findAndSetTrainBlock(blocks, byBearing.train, k + 1)

IsStale_ByAge(train, displayCutoff) ==
    train.timestamp < displayCutoff

IsStale(train, displayCutoff) ==
    \/ train.latitude = 0 /\ train.longitude = 0
    \/ train.timestamp < displayCutoff

AssignOne_KeepPrevious(blocks, train, displayCutoff) ==
    IF IsStale(train, displayCutoff) THEN ClearBlocks(train)
    ELSE IF Truthy(train.currentBlock)
            /\ trainInBlock(blocks, train, train.currentBlock)
    THEN train
    ELSE findAndSetTrainBlock(blocks, train, 1)

\* The staleness, sticky and search passes for one roster entry.
AssignOne(blocks, train, displayCutoff) ==
    IF IsStale(train, displayCutoff) THEN ClearBlocks(train)
    ELSE IF Truthy(train.currentBlock)
            /\ trainInBlock(blocks, train, train.currentBlock)
    THEN [train EXCEPT !.previousBlock = train.currentBlock]
    ELSE findAndSetTrainBlock(blocks, train, 1)

compareTrains(a, b) ==
    IF a.route = OUT_OF_SERVICE /\ b.route /= OUT_OF_SERVICE THEN 1
    ELSE IF a.route /= OUT_OF_SERVICE /\ b.route = OUT_OF_SERVICE THEN -1
    ELSE localeCompare(a.route, b.route)

\* Stable sort of roster indices by compareTrains (insertion sort).
RECURSIVE SortTrains(_, _)
SortTrains(trains, idxs) ==
    IF idxs = <<>> THEN <<>>
    ELSE LET front == SortTrains(trains, SubSeq(idxs, 1, Len(idxs) - 1))
             x == idxs[Len(idxs)]
             before == {i \in DOMAIN front :
                          compareTrains(trains[front[i]], trains[x]) <= 0}
             cut == IF before = {} THEN 0
                    ELSE CHOOSE i \in before : \A j \in before : j <= i
         IN SubSeq(front, 1, cut) \o <<x>> \o SubSeq(front, cut + 1, Len(front))

\* The indices of a sequence that satisfy a test, in ascending order.
RECURSIVE IndicesWhere(_, _)
IndicesWhere(n, test) ==
    IF n = 0 THEN <<>>
    ELSE IF n \in test THEN Append(IndicesWhere(n - 1, test), n)
    ELSE IndicesWhere(n - 1, test)

\* The loop over the sorted trains of one block.
RECURSIVE ResolveBlock(_, _, _, _, _)
ResolveBlock(block, sorted, i, trains, invisible) ==
    IF i > Len(sorted) THEN [trains |-> trains, invisible |-> invisible]
    ELSE LET t == sorted[i]
         IN IF i = 1
            THEN ResolveBlock(block, sorted, i + 1,
                     [trains EXCEPT ![t].currentBlock = block.blockNumber],
                     invisible)
            ELSE IF Truthy(block.altBlock) /\ i = 2
            THEN ResolveBlock(block, sorted, i + 1,
                     [trains EXCEPT ![t].currentBlock = block.altBlock],
                     invisible)
            ELSE IF trains[t].trainId /= EmptyId
            THEN ResolveBlock(block, sorted, i + 1, trains,
                     Append(invisible, trains[t].trainId))
            ELSE ResolveBlock(block, sorted, i + 1, trains, invisible)

RECURSIVE updateAltBlocks(_, _, _, _)
RECURSIVE updateAltBlocks_NoFilter(_, _, _, _)
updateAltBlocks_NoFilter(blocks, trains, invisible, k) ==
    IF k > Len(blocks) THEN [trains |-> trains, invisible |-> invisible]
    ELSE LET block == blocks[k]
             trainsInBlock == IndicesWhere(Len(trains),
                 {i \in DOMAIN trains : trains[i].currentBlock = block.blockNumber})
         IN IF Len(trainsInBlock) > 1
            THEN LET r == ResolveBlock(block, SortTrains(trains, trainsInBlock),
                                       1, trains, invisible)
                 IN updateAltBlocks_NoFilter(blocks, r.trains, r.invisible, k + 1)
            ELSE updateAltBlocks_NoFilter(blocks, trains, invisible, k + 1)

updateAltBlocks(blocks, trains, invisible, k) ==
    IF k > Len(blocks) THEN [trains |-> trains, invisible |-> invisible]
    ELSE LET block == blocks[k]
             trainsInBlock == IndicesWhere(Len(trains),
                 {i \in DOMAIN trains :
                     /\ trains[i].currentBlock = block.blockNumber
                     /\ trains[i].trainId \notin Range(invisible)})
         IN IF Len(trainsInBlock) > 1
            THEN LET r == ResolveBlock(block, SortTrains(trains, trainsInBlock),
                                       1, trains, invisible)
                 IN updateAltBlocks(blocks, r.trains, r.invisible, k + 1)
            ELSE updateAltBlocks(blocks, trains, invisible, k + 1)

assignBlocksToTrains(blocks, trains, displayThreshold, invisible, clock) ==
    LET displayCutoff == clock - displayThreshold
        assigned == [i \in DOMAIN trains |->
                        AssignOne(blocks, trains[i], displayCutoff)]
    IN updateAltBlocks(blocks, assigned, invisible, 1)

\* trackBlocks is undefined (hasBlocks is FALSE) when the config names no
\* KML file.
updateTrackedTrains(blocks, hasBlocks, trains, gtfsTrains, displayThreshold, invisible, clock) ==
    LET synced == syncTrainData(trains, gtfsTrains, 1, clock)
    IN IF hasBlocks
       THEN assignBlocksToTrains(blocks, synced, displayThreshold, invisible, clock)
       ELSE [trains |-> synced, invisible |-> invisible]

----------------------------------------------------------------------------
(* Pair detector.  A pair is [pairKey, vehicleIds], both the sorted pair of *)
(* ids; detectedAt and the metCriteria snapshot are diagnostics that no     *)
(* decision reads and are left out.                                         *)

FindVehicle(rawTrains, id) ==
    FirstIndex({i \in DOMAIN rawTrains : rawTrains[i].vid = id})

WithoutVehicles(rawTrains, idA, idB) ==
    SelectSeq(rawTrains, LAMBDA train : train.vid /= idA /\ train.vid /= idB)

DistanceBreached(trainA, trainB) ==
    /\ trainA.latitude /= 0
    /\ trainB.latitude /= 0
    /\ calculateDistance(trainA.latitude, trainA.longitude,
                         trainB.latitude, trainB.longitude) > maxDistance

\* 1. Update and remove existing pairs if the distance criteria is breached.
\* The loop runs over the list as it was on entry (original).
RECURSIVE BreakPairs(_, _, _, _)
BreakPairs(original, k, pairs, rawTrains) ==
    IF k > Len(original) THEN [trainPairs |-> pairs, rawTrains |-> rawTrains]
    ELSE LET trainPair == original[k]
             idA == trainPair.vehicleIds[1]
             idB == trainPair.vehicleIds[2]
             a == FindVehicle(rawTrains, idA)
             b == FindVehicle(rawTrains, idB)
             breached == a /= 0 /\ b /= 0
                         /\ DistanceBreached(rawTrains[a], rawTrains[b])
         IN BreakPairs(original, k + 1,
                IF breached
                THEN SelectSeq(pairs, LAMBDA pair : pair.pairKey /= trainPair.pairKey)
                ELSE pairs,
                WithoutVehicles(rawTrains, idA, idB))

IsCandidate(train, timeNow) ==
    /\ Truthy(train.speed) /\ train.speed >= minSpeed
    /\ train.latitude /= 0 /\ train.longitude /= 0
    /\ Truthy(train.timestamp) /\ train.timestamp >= timeNow - PairFreshSeconds

\* The five checks of the detect phase.  speed = distance / timeDiff is
\* compared without division; with timeDiff = 0 it is NaN for distance 0
\* (no check fails on NaN) and Infinity otherwise.
MeetsCriteria(trainA, trainB) ==
    LET distance == Max(calculateDistance(trainA.latitude, trainA.longitude,
                                          trainB.latitude, trainB.longitude)
                        - 2 * trainLength, 0)
        timeDiff == Abs(trainA.timestamp - trainB.timestamp)
        speedDiff == Abs(trainA.speed - trainB.speed)
    IN /\ distance <= 2 * trainLength
       /\ IF timeDiff = 0 THEN distance = 0 ELSE distance <= maxSpeed * timeDiff
       /\ speedDiff <= maxSpeedDiff
       /\ \/ trainA.bearing = Undefined
          \/ trainB.bearing = Undefined
          \/ calculateBearingDifference(trainA.bearing, trainB.bearing)
                <= maxBearingDiff
       /\ ~(TruthyStr(trainA.route_id) /\ TruthyStr(trainB.route_id)
             /\ trainA.route_id /= trainB.route_id)

SortedIds(x, y) == IF x <= y THEN <<x, y>> ELSE <<y, x>>

NewPair(trainAEntity, trainBEntity) ==
    [pairKey |-> SortedIds(trainAEntity.id, trainBEntity.id),
     vehicleIds |-> SortedIds(trainAEntity.id, trainBEntity.id)]

\* 2. The nested loops: i and j are the 0-based loop counters, trainAEntity
\* is the entity read at the head of the outer iteration; rawTrains is
\* reassigned inside the inner loop.
RECURSIVE DetectInner(_, _, _, _, _)
RECURSIVE DetectOuter(_, _, _)
DetectInner(i, j, trainAEntity, rawTrains, pairs) ==
    IF j >= Len(rawTrains) THEN DetectOuter(i + 1, rawTrains, pairs)
    ELSE LET trainBEntity == rawTrains[j + 1]
         IN IF MeetsCriteria(trainAEntity, trainBEntity)
            THEN LET newPair == NewPair(trainAEntity, trainBEntity)
                 IN DetectInner(i, j + 1, trainAEntity,
                        WithoutVehicles(rawTrains, newPair.vehicleIds[1],
                                        newPair.vehicleIds[2]),
                        Append(pairs, newPair))
            ELSE DetectInner(i, j + 1, trainAEntity, rawTrains, pairs)

DetectOuter(i, rawTrains, pairs) ==
    IF i >= Len(rawTrains) THEN [trainPairs |-> pairs, rawTrains |-> rawTrains]
    ELSE DetectInner(i, i + 1, rawTrains[i + 1], rawTrains, pairs)

\* 3. One id per pair, looked up in what is left of rawTrains.
InvisibleOf(pair, rawTrains) ==
    LET a == FindVehicle(rawTrains, pair.vehicleIds[1])
    IN IF a /= 0 /\ rawTrains[a].route_id = ""
       THEN pair.vehicleIds[1] ELSE pair.vehicleIds[2]

\* Array.from(new Set(ids)): first occurrences, in order.
RECURSIVE Dedupe(_)
Dedupe(ids) ==
    IF ids = <<>> THEN <<>>
    ELSE LET front == Dedupe(SubSeq(ids, 1, Len(ids) - 1))
             x == ids[Len(ids)]
         IN IF x \in Range(front) THEN front ELSE Append(front, x)

checkForTrainPairs(rawTrains, pairs, timeNow) ==
    LET broken == BreakPairs(pairs, 1, pairs, rawTrains)
        candidates == SelectSeq(broken.rawTrains,
                                LAMBDA train : IsCandidate(train, timeNow))
        detected == DetectOuter(0, candidates, broken.trainPairs)
        ids == [k \in DOMAIN detected.trainPairs |->
                   InvisibleOf(detected.trainPairs[k], detected.rawTrains)]
    IN [invisibleTrainIds |-> Dedupe(ids), trainPairs |-> detected.trainPairs]

----------------------------------------------------------------------------
(* LED generator.  A board revision (LEDRailsAPI) is                        *)
(*   [version, routeToColorId, blockRemap, displayThreshold,                *)
(*    randomizeTimeOffset, updateInterval, output]                          *)
(* with output = [timestamp, update, updates]; an update is [b, c, t] as on *)
(* the wire, plus train: the roster entry it was generated for, which the   *)
(* payload does not carry and which only the properties below read.         *)

ColorOf(api, route) ==
    IF route \in DOMAIN api.routeToColorId THEN api.routeToColorId[route]
    ELSE Undefined

TimeOffset_Unclamped(api, train, clock, r) ==
    IF api.randomizeTimeOffset
    THEN IF train.previousBlock = train.currentBlock THEN 0 ELSE r + 1
    ELSE train.timestamp - (clock - api.updateInterval)

\* rand[i] is floor(Math.random() * (updateInterval - 1)) as drawn for the
\* i-th roster entry.
TimeOffset(api, train, clock, r) ==
    IF api.randomizeTimeOffset
    THEN IF train.previousBlock = train.currentBlock THEN 0 ELSE r + 1
    ELSE Max(train.timestamp - (clock - api.updateInterval), 0)

Displayed(api, train, invisible, clock) ==
    /\ train.timestamp >= clock - api.displayThreshold
    /\ train.trainId \notin Range(invisible)
    /\ train.currentBlock /= Undefined
    /\ train.previousBlock /= Undefined
    /\ ColorOf(api, train.route) /= Undefined

\* The updates pushed by the forEach, before any remap.
LedUpdates(api, trains, invisible, clock, rand) ==
    LET shown == IndicesWhere(Len(trains),
                     {i \in DOMAIN trains :
                         Displayed(api, trains[i], invisible, clock)})
    IN [k \in DOMAIN shown |->
           [b |-> <<trains[shown[k]].previousBlock, trains[shown[k]].currentBlock>>,
            c |-> ColorOf(api, trains[shown[k]].route),
            t |-> TimeOffset(api, trains[shown[k]], clock, rand[shown[k]]),
            train |-> trains[shown[k]].trainId]]

RECURSIVE RemapBlock(_, _, _)

RemapBlock_LastRule(blockRemap, blockNum, k) ==
    LET matching == {r \in DOMAIN blockRemap :
                        blockNum >= blockRemap[r].start /\ blockNum <= blockRemap[r].end}
    IN IF matching = {} THEN blockNum
       ELSE blockNum + blockRemap[CHOOSE r \in matching :
                                     \A q \in matching : q <= r].offset

RemapBlock(blockRemap, blockNum, k) ==
    IF k > Len(blockRemap) THEN blockNum
    ELSE IF blockNum >= blockRemap[k].start /\ blockNum <= blockRemap[k].end
    THEN blockNum + blockRemap[k].offset
    ELSE RemapBlock(blockRemap, blockNum, k + 1)

RemapUpdates_NoRangeTest(blockRemap, updates) ==
    [k \in DOMAIN updates |->
        [updates[k] EXCEPT !.b =
            IF blockRemap = <<>> THEN updates[k].b
            ELSE <<updates[k].b[1] + blockRemap[1].offset,
                   updates[k].b[2] + blockRemap[1].offset>>]]

RemapUpdates(blockRemap, updates) ==
    [k \in DOMAIN updates |->
        [updates[k] EXCEPT !.b = <<RemapBlock(blockRemap, updates[k].b[1], 1),
                                   RemapBlock(blockRemap, updates[k].b[2], 1)>>]]

OutputTimestamp_OfUpdates(updates, clock) ==
    IF updates = <<>> THEN 0 ELSE clock

\* api.output.timestamp = now, whatever the updates are.
OutputTimestamp(updates, clock) == clock

generateLedMap_KeepUpdates(api, trains, invisible, clock, rand) ==
    [api EXCEPT
        !.output.updates =
            api.output.updates \o
            RemapUpdates(api.blockRemap,
                         LedUpdates(api, trains, invisible, clock, rand)),
        !.output.timestamp = clock]

generateLedMap(api, trains, invisible, clock, rand) ==
    LET updates == RemapUpdates(api.blockRemap,
                       LedUpdates(api, trains, invisible, clock, rand))
    IN [api EXCEPT !.output.updates = updates,
                   !.output.timestamp = OutputTimestamp(updates, clock)]

updateLEDRailsAPIs(apis, trains, invisible, clock, rand) ==
    [index \in DOMAIN apis |->
        generateLedMap(apis[index], trains, invisible, clock, rand)]

----------------------------------------------------------------------------
(* Entity store, train filter and the pipeline of one tick.                 *)
(*                                                                          *)
(* What a feed URL answers to one request is a reply [kind, entity]: kind   *)
(* is "ok" (2xx with a decodable body carrying entity), "network" (the      *)
(* request fails), "status" (non-2xx) or "malformed" (2xx with a body that  *)
(* cannot be decoded).  A fetched response is [ok, entity]: ok is FALSE     *)
(* when fetchFromAPI returned undefined.                                    *)
(* config is [pairTrains, trainFilter, entityID, trip_ID, displayThreshold, *)
(* hasTrackBlocks, hasTripsUrl, protocol, removeStaleVehiclesHours].        *)

\* The promise of fetchFromAPI rejects: in the JSON branch the promise of
\* response.json() is returned as it is, outside every try block.
FetchRejects_AnyFailure(protocol, reply) == reply.kind /= "ok"

FetchRejects(protocol, reply) ==
    reply.kind = "malformed" /\ protocol /= "protobuf"

fetchFromAPI(protocol, reply) ==
    IF reply.kind = "ok" THEN [ok |-> TRUE, entity |-> reply.entity]
    ELSE [ok |-> FALSE, entity |-> <<>>]

\* Promise.all over the requests of one tick rejects when one of them does.
FetchAllRejects(cfg, urlReplies) ==
    \E k \in DOMAIN urlReplies : FetchRejects(cfg.protocol, urlReplies[k])

FetchAll(cfg, urlReplies) ==
    [k \in DOMAIN urlReplies |-> fetchFromAPI(cfg.protocol, urlReplies[k])]

RECURSIVE AllEntities(_, _)
AllEntities(responses, k) ==
    IF k > Len(responses) THEN <<>>
    ELSE (IF responses[k].ok THEN responses[k].entity ELSE <<>>)
         \o AllEntities(responses, k + 1)

\* Combine "stopTimeUpdate" from trips into positions based on entity id.
MergeTripUpdates(allPositionEntities, allTripEntities) ==
    [k \in DOMAIN allPositionEntities |->
        LET positionEntity == allPositionEntities[k]
            t == FirstIndex({i \in DOMAIN allTripEntities :
                                allTripEntities[i].id = positionEntity.id})
        IN IF t /= 0 /\ allTripEntities[t].hasTripUpdate
           THEN [positionEntity EXCEPT
                    !.hasTripUpdate = TRUE,
                    !.stopTimeUpdate = allTripEntities[t].stopTimeUpdate]
           ELSE positionEntity]

\* Array.from(new Map(list.map(e => [vid, e])).values()): one entry per
\* key, at the place of the first occurrence, holding the last occurrence.
RECURSIVE MergeById(_)

MergeById_Concat(list) == list

MergeById(list) ==
    IF list = <<>> THEN <<>>
    ELSE LET front == MergeById(SubSeq(list, 1, Len(list) - 1))
             e == list[Len(list)]
             at == FirstIndex({i \in DOMAIN front : front[i].vid = e.vid})
         IN IF at /= 0 THEN [front EXCEPT ![at] = e] ELSE Append(front, e)

EntityIDKept(cfg, entity) ==
    /\ Truthy(entity.id)
    /\ entity.id >= cfg.entityID.start
    /\ entity.id <= cfg.entityID.end

TripIDKept(cfg, entity) ==
    /\ TruthyStr(entity.trip_id)
    /\ ~\E x \in DOMAIN cfg.trip_ID.excludes :
            Includes(entity.trip_id, cfg.trip_ID.excludes[x])
    /\ \/ cfg.trip_ID.includes = <<>>
       \/ \E x \in DOMAIN cfg.trip_ID.includes :
            Includes(entity.trip_id, cfg.trip_ID.includes[x])

\* trainFilter is "absent" (no trainFilter key), "entityID", "trip_ID", or
\* "empty" (an object with neither rule, which assigns nothing).
FilterTrains(cfg, store, previous) ==
    CASE cfg.trainFilter = "absent" -> store
      [] cfg.trainFilter = "entityID" ->
            SelectSeq(store, LAMBDA entity : EntityIDKept(cfg, entity))
      [] cfg.trainFilter = "trip_ID" ->
            SelectSeq(store, LAMBDA entity : TripIDKept(cfg, entity))
      [] OTHER -> previous

\* The network state after getGTFSRealtimeData, as a record of the fields
\* it assigns.
getGTFSRealtimeData(cfg, blocks, net, positionResponses, tripResponses, clock) ==
    LET positions == AllEntities(positionResponses, 1)
        allPositionEntities ==
            IF cfg.hasTripsUrl /\ Len(tripResponses) > 0
            THEN MergeTripUpdates(positions, AllEntities(tripResponses, 1))
            ELSE positions
        store == IF Len(allPositionEntities) > 0
                 THEN MergeById(net.entities \o allPositionEntities)
                 ELSE net.entities
        trains == FilterTrains(cfg, store, net.trainEntities)
        paired == IF cfg.pairTrains
                  THEN checkForTrainPairs(trains, net.trainPairs, clock)
                  ELSE [invisibleTrainIds |-> <<>>, trainPairs |-> net.trainPairs]
        tracked == updateTrackedTrains(blocks, cfg.hasTrackBlocks,
                       net.trackedTrains, trains, cfg.displayThreshold,
                       paired.invisibleTrainIds, clock)
    IN [entities |-> store,
        trainEntities |-> trains,
        trainPairs |-> paired.trainPairs,
        invisibleTrains |-> tracked.invisible,
        trackedTrains |-> tracked.trains]

----------------------------------------------------------------------------
(* The networks and feeds the model is driven with.                         *)

Rect(latLo, latHi) == <<<<latLo, 0>>, <<latLo, 100>>, <<latHi, 100>>, <<latHi, 0>>>>

Block(number, alt, latLo, latHi, platforms) ==
    [blockNumber |-> number, altBlock |-> alt, priority |-> FALSE,
     routes |-> <<>>, polygon |-> Rect(latLo, latHi), platforms |-> platforms]

Platform(number, stops, default, bearing) ==
    [blockNumber |-> number, stop_ids |-> stops, isDefault |-> default,
     bearing |-> bearing, routes |-> <<>>]

StationPlatforms ==
    <<Platform(303, <<"S3">>, FALSE, Undefined),
      Platform(304, <<"S4">>, FALSE, Undefined),
      Platform(303, <<>>, TRUE, Undefined)>>

\* Block 1 has alternative block 2, and 2 is also a block of the map that
\* comes earlier in the iteration order; block 300 is a station.
MapAltIsBlock ==
    <<Block(2, Undefined, 11000, 12000, <<>>),
      Block(1, 2, 10200, 11000, <<>>),
      Block(300, Undefined, 12000, 13000, StationPlatforms)>>

\* A polygon around the position (0,0).
AroundZero == <<<<-100, -100>>, <<-100, 100>>, <<100, 100>>, <<100, -100>>>>

\* Block 1 has alternative block 5, which is no block of the map; block 9
\* is drawn around the position (0,0).
MapAltIsLed ==
    <<Block(1, 5, 10200, 11000, <<>>),
      Block(2, Undefined, 11000, 12000, <<>>),
      Block(300, Undefined, 12000, 13000, StationPlatforms),
      [Block(9, Undefined, 0, 0, <<>>) EXCEPT !.polygon = AroundZero]>>

\* Places: inside block 1, inside block 2, inside the station block 300,
\* inside no block (and more than maxDistance from the others), and the
\* invalid position (0,0).
PtA == <<10400, 50>>
PtB == <<11200, 50>>
PtC == <<12400, 50>>
PtOut == <<14000, 50>>
PtZero == <<0, 0>>

Board(version, remap) ==
    [version |-> version,
     routeToColorId |-> [r \in {"EAST-201", OUT_OF_SERVICE} |->
                            IF r = "EAST-201" THEN 0 ELSE 1],
     blockRemap |-> remap,
     displayThreshold |-> DefaultDisplayThreshold,
     randomizeTimeOffset |-> FALSE,
     updateInterval |-> FetchIntervalSeconds,
     output |-> [timestamp |-> 0, update |-> FetchIntervalSeconds,
                 updates |-> <<>>]]

Boards ==
    <<Board("100", <<>>),
      Board("110", <<[start |-> 300, end |-> 399, offset |-> -100]>>)>>

\* A third board revision whose rules overlap and feed one another: the
\* output range of the first rule is the input range of the second, the
\* third rule covers the sentinel 0, and the fourth lies inside the third.
ChainedRemap ==
    <<[start |-> 300, end |-> 399, offset |-> -100],
      [start |-> 200, end |-> 299, offset |-> 500],
      [start |-> 0, end |-> 2, offset |-> 40],
      [start |-> 1, end |-> 1, offset |-> 70]>>

BoardsChained == Boards \o <<Board("120", ChainedRemap)>>

Config(pairTrains, hasTrackBlocks) ==
    [pairTrains |-> pairTrains,
     trainFilter |-> "absent",
     entityID |-> [start |-> 0, end |-> 0],
     trip_ID |-> [includes |-> <<>>, excludes |-> <<>>],
     displayThreshold |-> DefaultDisplayThreshold,
     hasTrackBlocks |-> hasTrackBlocks,
     hasTripsUrl |-> FALSE,
     protocol |-> "json",
     removeStaleVehiclesHours |-> Undefined,
     colors |-> <<>>]

\* A vehicle position entity as the feed reports it at time clock.
Report(id, vid, pt, speed, bearing, route, stops, clock) ==
    [id |-> id, vid |-> vid, latitude |-> pt[1], longitude |-> pt[2],
     speed |-> speed, bearing |-> bearing, timestamp |-> clock,
     route_id |-> route, routeId |-> UndefinedStr, trip_id |-> UndefinedStr,
     hasTripUpdate |-> stops /= <<>>,
     stopTimeUpdate |-> [k \in DOMAIN stops |->
                            [stopId |-> stops[k], departure |-> clock + 60,
                             arrival |-> Undefined]]]

\* The id of a feed entity: the feed either reuses the vehicle id or numbers
\* its entities on its own.
EntityId(ids, vid) == IF ids = "vehicle" THEN vid ELSE vid - 59100

\* Scenario "blocks": three vehicles of different routes, one without a
\* reported speed, one carrying stop time updates, one without a route, each
\* reported at one of five places.
BlocksFleet ==
    {[vid |-> 59101, speed |-> Undefined, route |-> "EAST-201", stops |-> <<>>],
     [vid |-> 59102, speed |-> 10, route |-> "WEST-201", stops |-> <<"S4">>],
     [vid |-> 59103, speed |-> 9, route |-> UndefinedStr, stops |-> <<>>]}

BlocksReports(ids, clock) ==
    {Report(EntityId(ids, v.vid), v.vid, pt, v.speed, 90, v.route, v.stops, clock) :
        v \in BlocksFleet, pt \in {PtA, PtB, PtC, PtOut, PtZero}}

\* Scenario "pairs": two moving vehicles of one route with a color id.
PairsReports(ids, clock) ==
    {Report(EntityId(ids, vid), vid, pt, 10, 90, "EAST-201", <<>>, clock) :
        vid \in {59101, 59102}, pt \in {PtA, PtB, PtOut}}

\* Scenario "detector": the first n of five moving vehicles of one route are
\* reported together at one place, except that the far-th of them, if any,
\* is reported more than maxDistance away.
DetectorOrder == <<59103, 59101, 59102, 59104, 59105>>

DetectorFeed(ids, clock, n, far) ==
    [k \in 1..n |->
        Report(EntityId(ids, DetectorOrder[k]), DetectorOrder[k],
               IF k = far THEN PtOut ELSE PtA, 10, 90, "EAST-201", <<>>, clock)]

DetectorFeeds(ids, clock) ==
    {DetectorFeed(ids, clock, n, far) : n \in {2, 3, 5}, far \in 0..5}

\* Scenario "routes": two moving vehicles reported together at one place,
\* each with a route, with the empty route_id or without route_id.
PairRoutes == {"EAST-201", "", UndefinedStr}

RoutesFeeds(ids, clock) ==
    {<<Report(EntityId(ids, 59101), 59101, PtA, 10, 90, routeA, <<>>, clock),
       Report(EntityId(ids, 59102), 59102, PtA, 10, 90, routeB, <<>>, clock)>> :
        routeA \in PairRoutes, routeB \in PairRoutes}

\* Scenario "checks": vehicle 59101 moving at PtA, with or without a
\* bearing, and vehicle 59102 close behind it with nearly the same bearing,
\* reported 4 s earlier, or differing from that in one respect: 200 m or
\* 300 m away, slower or faster, another or no bearing, reported now or 40 s
\* ago.
ChecksBase == [lat |-> 10400, speed |-> 10, bearing |-> 93, age |-> 4]

ChecksVariants ==
    {ChecksBase,
     [ChecksBase EXCEPT !.lat = 10600],
     [ChecksBase EXCEPT !.lat = 10600, !.age = 0],
     [ChecksBase EXCEPT !.lat = 10700],
     [ChecksBase EXCEPT !.speed = 14],
     [ChecksBase EXCEPT !.speed = 2],
     [ChecksBase EXCEPT !.bearing = 270],
     [ChecksBase EXCEPT !.bearing = Undefined],
     [ChecksBase EXCEPT !.age = 0],
     [ChecksBase EXCEPT !.age = 40]}

ChecksFeeds(ids, clock) ==
    {<<Report(EntityId(ids, 59101), 59101, PtA, 10, bearingA, "EAST-201", <<>>, clock),
       Report(EntityId(ids, 59102), 59102, <<v.lat, 50>>, v.speed, v.bearing,
              "EAST-201", <<>>, clock - v.age)>> :
        bearingA \in {Undefined, 90}, v \in ChecksVariants}

\* Scenario "server": one vehicle with a color id, outside or inside the
\* block range a board revision remaps.
ServerReports(ids, clock) ==
    {Report(EntityId(ids, 59101), 59101, pt, Undefined, 90, "EAST-201", <<>>, clock) :
        pt \in {PtA, PtC}}

\* Scenario "stationary": one vehicle reported with the time of the fetch,
\* standing (speed 0 or none) or moving, inside block 1 or inside the
\* station block.
StationaryReports(ids, clock) ==
    {Report(EntityId(ids, 59101), 59101, pt, speed, 90, "EAST-201", <<>>, clock) :
        pt \in {PtA, PtC}, speed \in {Undefined, 0, 10}}

\* Scenario "leave": two moving vehicles of one route at one place, reported
\* together or one without the other.
LeaveFeeds(ids, clock) ==
    LET report(vid) == Report(EntityId(ids, vid), vid, PtA, 10, 90, "EAST-201",
                              <<>>, clock)
    IN {<<report(59101), report(59102)>>, <<report(59101)>>, <<report(59102)>>}

\* The lists of position entities one fetch can return at time clock.
Feeds(sc, ids, clock) ==
    CASE sc = "blocks" -> {<<>>} \cup {<<r>> : r \in BlocksReports(ids, clock)}
      [] sc = "pairs" -> {<<>>} \cup {<<r>> : r \in PairsReports(ids, clock)}
      [] sc = "detector" -> {<<>>} \cup DetectorFeeds(ids, clock)
      [] sc = "routes" -> {<<>>} \cup RoutesFeeds(ids, clock)
      [] sc = "checks" -> {<<>>} \cup ChecksFeeds(ids, clock)
      [] sc = "server" -> {<<>>} \cup {<<r>> : r \in ServerReports(ids, clock)}
      [] sc = "outage" -> {<<>>} \cup {<<r>> : r \in ServerReports(ids, clock)}
      [] sc = "leave" -> {<<>>} \cup LeaveFeeds(ids, clock)
      [] sc = "stationary" -> {<<>>} \cup {<<r>> : r \in StationaryReports(ids, clock)}
      [] OTHER -> {<<>>}

\* A 2xx answer with a decodable body.
Answer(feed) == [kind |-> "ok", entity |-> feed]

\* An answer that carries no entities: the request fails, the status is not
\* 2xx, or the body cannot be decoded.
Failure(kind) == [kind |-> kind, entity |-> <<>>]

Failures == {Failure(kind) : kind \in {"network", "status", "malformed"}}

StoreReport(id, vid, pt, clock) ==
    Report(id, vid, pt, Undefined, 90, "EAST-201", <<>>, clock)

\* Scenario "store": two position URLs.  The first reports vehicle 59101
\* twice in one body, or an entity without vehicle id, or fails; the second
\* reports nothing, vehicle 59102 or, again, 59101, or fails.
StoreFeeds(url, clock) ==
    IF url = 1
    THEN {<<StoreReport(1, 59101, PtA, clock), StoreReport(2, 59101, PtB, clock)>>,
          <<StoreReport(3, Undefined, PtA, clock)>>}
    ELSE {<<>>,
          <<StoreReport(4, 59102, PtA, clock)>>,
          <<StoreReport(5, 59101, PtC, clock)>>}

StoreReplies(url, clock) ==
    (IF url = 1 THEN Failures ELSE {Failure("status")})
        \cup {Answer(feed) : feed \in StoreFeeds(url, clock)}

\* Seconds between two ticks: the fetch interval, or a long silence.
Gaps(feed) == IF feed = <<>> THEN {FetchIntervalSeconds, 400}
              ELSE {FetchIntervalSeconds}

----------------------------------------------------------------------------
(* State machine.                                                           *)

Network == <<entities, trainEntities, trainPairs, invisibleTrains, trackedTrains>>

Net == [entities |-> entities, trainEntities |-> trainEntities,
        trainPairs |-> trainPairs, invisibleTrains |-> invisibleTrains,
        trackedTrains |-> trackedTrains]

NoRand == [i \in 1..8 |-> 0]

Outputs(apis) == [index \in DOMAIN apis |-> apis[index].output]

InitNetwork(sc, ids, blocks, cfg, apis) ==
    /\ scenario = sc
    /\ feedIds = ids
    /\ trackBlocks = blocks
    /\ config = cfg
    /\ entities = <<>>
    /\ trainEntities = <<>>
    /\ trainPairs = <<>>
    /\ invisibleTrains = <<>>
    /\ trackedTrains = <<>>
    /\ ledRailsAPIs = apis
    /\ now = 1000
    /\ ticks = 0
    /\ event = "init"
    /\ isFetchInProgress = FALSE
    /\ inFlight = 0
    /\ pc = "idle"
    /\ board = 0
    /\ pending = <<>>
    /\ observed = [board |-> 0, output |-> <<>>]
    /\ published = [prev |-> Outputs(apis), next |-> Outputs(apis)]
    /\ replies = <<>>

Init ==
    \E blocks \in {MapAltIsBlock, MapAltIsLed} :
        /\ InitNetwork("blocks", "vehicle", blocks, Config(TRUE, TRUE), BoardsChained)
        /\ process = "running"

\* RailNetwork.update(): one whole tick, run at time now + gap on what the
\* position URLs answered.  When a request rejects, the await of Promise.all
\* throws before the tick has assigned anything.
Tick(urlReplies, gap) ==
    /\ ticks < MaxTicks
    /\ process = "running"
    /\ LET clock == now + gap
           net == getGTFSRealtimeData(config, trackBlocks, Net,
                      FetchAll(config, urlReplies), <<>>, clock)
       IN /\ now' = clock
          /\ IF FetchAllRejects(config, urlReplies)
             THEN /\ UNCHANGED <<Network, ledRailsAPIs>>
                  /\ event' = "threw"
             ELSE /\ entities' = net.entities
                  /\ trainEntities' = net.trainEntities
                  /\ trainPairs' = net.trainPairs
                  /\ invisibleTrains' = net.invisibleTrains
                  /\ trackedTrains' = net.trackedTrains
                  /\ ledRailsAPIs' =
                        IF Len(ledRailsAPIs) > 0
                        THEN updateLEDRailsAPIs(ledRailsAPIs, net.trackedTrains,
                                                net.invisibleTrains, clock, NoRand)
                        ELSE ledRailsAPIs
                  /\ event' = "tick"
    /\ ticks' = ticks + 1
    /\ replies' = urlReplies
    /\ UNCHANGED <<scenario, feedIds, trackBlocks, config, isFetchInProgress,
                   inFlight, pc, board, pending, observed, published, process>>

Next ==
    \E gap \in {FetchIntervalSeconds, 400} :
        \E feed \in Feeds(scenario, feedIds, now + gap) :
            gap \in Gaps(feed) /\ Tick(<<Answer(feed)>>, gap)

Spec == Init /\ [][Next]_vars

\* A network with track blocks and boards whose single position URL
\* reports one vehicle, reports nothing or fails.
InitOutage ==
    /\ InitNetwork("outage", "vehicle", MapAltIsLed, Config(FALSE, TRUE), Boards)
    /\ process = "running"

\* A tick in which the request of the position URL fails.
Outage ==
    \E gap \in {FetchIntervalSeconds, 400} :
        \E reply \in Failures : Tick(<<reply>>, gap)

NextOutage ==
    \/ Next
    \/ Outage

SpecOutage == InitOutage /\ [][NextOutage]_vars

\* A network with track blocks and boards whose feed reports one vehicle
\* with a fresh timestamp at every fetch.
InitStationary ==
    /\ InitNetwork("stationary", "vehicle", MapAltIsLed, Config(FALSE, TRUE), Boards)
    /\ process = "running"

\* A tick on what the position URL answered, the fetch interval or ten
\* fetch intervals after the tick before: ticks in between that carry the
\* same place leave the roster as it is.
NextStationary ==
    \E gap \in {FetchIntervalSeconds, 10 * FetchIntervalSeconds} :
        \E feed \in Feeds(scenario, feedIds, now + gap) :
            Tick(<<Answer(feed)>>, gap)

SpecStationary == InitStationary /\ [][NextStationary]_vars

\* A network with train pairing whose feed carries two vehicles that can
\* pair, under either way of naming the feed entities.
InitPairs ==
    \E ids \in {"vehicle", "own"} :
        /\ InitNetwork("pairs", ids, MapAltIsLed, Config(TRUE, TRUE), Boards)
        /\ process = "running"

SpecPairs == InitPairs /\ [][Next]_vars

\* A network without track blocks and boards, reduced to the entity store
\* and the pair detector.
InitDetector ==
    \E ids \in {"vehicle", "own"} :
        /\ InitNetwork("detector", ids, <<>>, Config(TRUE, FALSE), <<>>)
        /\ process = "running"

SpecDetector == InitDetector /\ [][Next]_vars

\* The same reduced network, fed with pairs of vehicles that do or do not
\* carry a route.
InitPairRoutes ==
    \E ids \in {"vehicle", "own"} :
        /\ InitNetwork("routes", ids, <<>>, Config(TRUE, FALSE), <<>>)
        /\ process = "running"

SpecPairRoutes == InitPairRoutes /\ [][Next]_vars

\* The same reduced network, fed with two vehicles that pass or fail the
\* checks of the detect phase.
InitPairChecks ==
    \E ids \in {"vehicle", "own"} :
        /\ InitNetwork("checks", ids, <<>>, Config(TRUE, FALSE), <<>>)
        /\ process = "running"

SpecPairChecks == InitPairChecks /\ [][Next]_vars

\* A network without track blocks and boards, with two position URLs and
\* stale-vehicle eviction after one hour, under either protocol, without trainFilter or with a trainFilter
\* object that holds no rule.
InitStore ==
    \E protocol \in {"json", "protobuf"}, trainFilter \in {"absent", "empty"} :
        /\ InitNetwork("store", "own", <<>>,
                       [Config(FALSE, FALSE) EXCEPT
                           !.protocol = protocol,
                           !.trainFilter = trainFilter,
                           !.removeStaleVehiclesHours = 1],
                       <<>>)
        /\ process = "running"

IsFresh_Younger(cfg, entity, clock) ==
    LET vehicleTimestamp == IF Truthy(entity.timestamp) THEN entity.timestamp
                            ELSE 0
    IN clock - vehicleTimestamp < cfg.removeStaleVehiclesHours * 3600

IsFresh(cfg, entity, clock) ==
    LET vehicleTimestamp == IF Truthy(entity.timestamp) THEN entity.timestamp
                            ELSE 0
    IN clock - vehicleTimestamp <= cfg.removeStaleVehiclesHours * 3600

\* The interval timer of the constructor calls removeStaleVehicles().
RemoveStaleVehicles ==
    /\ process = "running"
    /\ Truthy(config.removeStaleVehiclesHours)
    /\ event /= "evict"
    /\ entities' = SelectSeq(entities, LAMBDA entity : IsFresh(config, entity, now))
    /\ event' = "evict"
    /\ UNCHANGED <<scenario, feedIds, trackBlocks, config, trainEntities,
                   trainPairs, invisibleTrains, trackedTrains, ledRailsAPIs,
                   now, ticks, isFetchInProgress, inFlight, pc, board, pending,
                   observed, published, process, replies>>

\* Seconds between two ticks of the store scenario: the fetch interval, or,
\* when nothing is reported, a silence longer than the eviction age.
StoreGaps(urlReplies) ==
    IF \A k \in DOMAIN urlReplies : urlReplies[k].entity = <<>>
    THEN {FetchIntervalSeconds, config.removeStaleVehiclesHours * 3600 + 400}
    ELSE {FetchIntervalSeconds}

StoreTick ==
    \E gap \in {FetchIntervalSeconds, config.removeStaleVehiclesHours * 3600 + 400} :
        \E first \in StoreReplies(1, now + gap), second \in StoreReplies(2, now + gap) :
            gap \in StoreGaps(<<first, second>>) /\ Tick(<<first, second>>, gap)

\* Scenario "roster": the entities handed to one roster sync, up to two of
\* them, for two vehicles and for entities without vehicle id.
RosterReports(clock) ==
    {StoreReport(1, 59101, PtA, clock), StoreReport(2, 59101, PtB, clock),
     StoreReport(3, 59102, PtA, clock), StoreReport(4, Undefined, PtA, clock),
     StoreReport(5, Undefined, PtB, clock)}

RosterFeeds(clock) ==
    {<<>>} \cup {<<r>> : r \in RosterReports(clock)}
           \cup {<<r, q>> : r \in RosterReports(clock), q \in RosterReports(clock)}

InitRoster ==
    /\ InitNetwork("roster", "own", <<>>, Config(FALSE, FALSE), <<>>)
    /\ process = "running"

\* syncTrainData(trackedTrains, gtfsTrains) on its own; replies records the
\* list it was handed.
RosterSync(gtfsTrains) ==
    /\ ticks < MaxTicks
    /\ now' = now + FetchIntervalSeconds
    /\ trackedTrains' = syncTrainData(trackedTrains, gtfsTrains, 1, now')
    /\ replies' = <<Answer(gtfsTrains)>>
    /\ ticks' = ticks + 1
    /\ event' = "sync"
    /\ UNCHANGED <<scenario, feedIds, trackBlocks, config, entities,
                   trainEntities, trainPairs, invisibleTrains, ledRailsAPIs,
                   isFetchInProgress, inFlight, pc, board, pending, observed,
                   published, process>>

NextRoster == \E gtfsTrains \in RosterFeeds(now + FetchIntervalSeconds) : RosterSync(gtfsTrains)

SpecRoster == InitRoster /\ [][NextRoster]_vars

\* Scenario "stops": vehicle 59101 without a reported speed at one of two
\* places, without a trip update or with one that names stop S3 with a
\* departure in a minute, stop S3 twice, stop S3 with a departure a quarter
\* of an hour ago, or stop S4 with arrival time 0 and no departure.
StopsUpdates(clock) ==
    {<<>>,
     <<[stopId |-> "S3", departure |-> clock + 60, arrival |-> Undefined]>>,
     <<[stopId |-> "S3", departure |-> clock + 60, arrival |-> Undefined],
       [stopId |-> "S3", departure |-> clock + 120, arrival |-> Undefined]>>,
     <<[stopId |-> "S3", departure |-> clock - 900, arrival |-> Undefined]>>,
     <<[stopId |-> "S4", departure |-> Undefined, arrival |-> 0]>>}

StopsFeeds(clock) ==
    {<<>>}
    \cup {<<Report(1, 59101, pt, Undefined, 90, "EAST-201", <<>>, clock)>> :
             pt \in {PtA, PtB}}
    \cup {<<[Report(1, 59101, pt, Undefined, 90, "EAST-201", <<>>, clock)
               EXCEPT !.hasTripUpdate = TRUE, !.stopTimeUpdate = stus]>> :
             pt \in {PtA, PtB}, stus \in StopsUpdates(clock)}

InitStops ==
    /\ InitNetwork("stops", "own", <<>>, Config(FALSE, FALSE), <<>>)
    /\ process = "running"

\* syncTrainData(trackedTrains, gtfsTrains) on its own, the fetch interval
\* or a quarter of an hour after the sync before.
StopsSync(gtfsTrains, gap) ==
    /\ ticks < MaxTicks
    /\ now' = now + gap
    /\ trackedTrains' = syncTrainData(trackedTrains, gtfsTrains, 1, now')
    /\ replies' = <<Answer(gtfsTrains)>>
    /\ ticks' = ticks + 1
    /\ event' = "sync"
    /\ UNCHANGED <<scenario, feedIds, trackBlocks, config, entities,
                   trainEntities, trainPairs, invisibleTrains, ledRailsAPIs,
                   isFetchInProgress, inFlight, pc, board, pending, observed,
                   published, process>>

NextStops ==
    \E gap \in {FetchIntervalSeconds, 900} :
        \E gtfsTrains \in StopsFeeds(now + gap) : StopsSync(gtfsTrains, gap)

SpecStops == InitStops /\ [][NextStops]_vars

\* Block 1 has alternative block 2, and block 2, which comes later in the
\* map, has alternative block 5.
MapAltChain ==
    <<Block(1, 2, 10200, 11000, <<>>),
      Block(2, 5, 11000, 12000, <<>>)>>

\* Scenario "alt": four vehicles, two of one route, one of another and one
\* without a route, reported in this or in the reverse order, each inside
\* block 1 or inside block 2.
AltRoutes == <<"EAST-201", "WEST-201", UndefinedStr, "EAST-201">>

AltFeeds(clock) ==
    {[k \in 1..4 |->
         Report(order[k], 59100 + order[k], place[order[k]], Undefined, 90,
                AltRoutes[order[k]], <<>>, clock)] :
        order \in {<<1, 2, 3, 4>>, <<4, 3, 2, 1>>},
        place \in [1..4 -> {PtA, PtB}]}

\* The roster as the search pass of assignBlocksToTrains leaves it in the
\* first tick, before updateAltBlocks runs; one of the trains may have been
\* made invisible by the pair detector.
InitAlt ==
    \E blocks \in {MapAltChain, MapAltIsBlock, MapAltIsLed},
       feed \in AltFeeds(1000), paired \in {<<>>, <<59102>>} :
        /\ scenario = "alt"
        /\ feedIds = "own"
        /\ trackBlocks = blocks
        /\ config = Config(TRUE, TRUE)
        /\ entities = feed
        /\ trainEntities = feed
        /\ trainPairs = <<>>
        /\ invisibleTrains = paired
        /\ trackedTrains =
              LET synced == syncTrainData(<<>>, feed, 1, 1000)
              IN [i \in DOMAIN synced |->
                     AssignOne(blocks, synced[i], 1000 - config.displayThreshold)]
        /\ ledRailsAPIs = <<>>
        /\ now = 1000
        /\ ticks = 0
        /\ event = "search"
        /\ isFetchInProgress = FALSE
        /\ inFlight = 0
        /\ pc = "idle"
        /\ board = 0
        /\ pending = <<>>
        /\ observed = [board |-> 0, output |-> <<>>]
        /\ published = [prev |-> <<>>, next |-> <<>>]
        /\ replies = <<Answer(feed)>>
        /\ process = "running"

\* updateAltBlocks(trackBlocks, trackedTrains, invisibleTrainIds), the last
\* call of assignBlocksToTrains.
AltPass ==
    /\ event = "search"
    /\ LET r == updateAltBlocks(trackBlocks, trackedTrains, invisibleTrains, 1)
       IN /\ trackedTrains' = r.trains
          /\ invisibleTrains' = r.invisible
    /\ event' = "alt"
    /\ UNCHANGED <<scenario, feedIds, trackBlocks, config, entities,
                   trainEntities, trainPairs, ledRailsAPIs, now, ticks,
                   isFetchInProgress, inFlight, pc, board, pending, observed,
                   published, process, replies>>

SpecAlt == InitAlt /\ [][AltPass]_vars

\* Scenario "platforms": the platforms a station placemark can list: two
\* with stop ids, one with stop ids for the WEST routes only, a default one
\* with a bearing and a default one without.
PlatformPool ==
    <<Platform(303, <<"S3">>, FALSE, Undefined),
      Platform(304, <<"S4">>, FALSE, Undefined),
      [Platform(307, <<"S3", "S4">>, FALSE, Undefined) EXCEPT !.routes = <<"WEST">>],
      Platform(305, <<>>, TRUE, 90),
      Platform(306, <<>>, TRUE, Undefined)>>

\* Three different platforms of the pool, in every order.
PlatformLists ==
    {[k \in 1..3 |-> PlatformPool[pick[k]]] :
        pick \in {q \in [1..3 -> DOMAIN PlatformPool] :
                     q[1] /= q[2] /\ q[1] /= q[3] /\ q[2] /= q[3]}}

\* A train sighted for the first time inside the station block, of either
\* route, with or without a bearing, with no, one or two upcoming stops.
PlatformFeeds(clock) ==
    {<<Report(1, 59101, PtC, Undefined, bearing, route, stops, clock)>> :
        bearing \in {90, 270, Undefined}, route \in {"EAST-201", "WEST-201"},
        stops \in {<<>>, <<"S4">>, <<"S3", "S4">>}}

\* The roster after the sync of the first tick, before the search pass.
InitPlatforms ==
    \E platforms \in PlatformLists, feed \in PlatformFeeds(1000) :
        /\ scenario = "platforms"
        /\ feedIds = "own"
        /\ trackBlocks = <<Block(300, Undefined, 12000, 13000, platforms)>>
        /\ config = Config(FALSE, TRUE)
        /\ entities = feed
        /\ trainEntities = feed
        /\ trainPairs = <<>>
        /\ invisibleTrains = <<>>
        /\ trackedTrains = syncTrainData(<<>>, feed, 1, 1000)
        /\ ledRailsAPIs = <<>>
        /\ now = 1000
        /\ ticks = 0
        /\ event = "synced"
        /\ isFetchInProgress = FALSE
        /\ inFlight = 0
        /\ pc = "idle"
        /\ board = 0
        /\ pending = <<>>
        /\ observed = [board |-> 0, output |-> <<>>]
        /\ published = [prev |-> <<>>, next |-> <<>>]
        /\ replies = <<Answer(feed)>>
        /\ process = "running"

\* findAndSetTrainBlock(trackBlocks, train) for every train of the roster.
SearchPass ==
    /\ event = "synced"
    /\ trackedTrains' = [i \in DOMAIN trackedTrains |->
                            findAndSetTrainBlock(trackBlocks, trackedTrains[i], 1)]
    /\ event' = "searched"
    /\ UNCHANGED <<scenario, feedIds, trackBlocks, config, entities,
                   trainEntities, trainPairs, invisibleTrains, ledRailsAPIs,
                   now, ticks, isFetchInProgress, inFlight, pc, board, pending,
                   observed, published, process, replies>>

SpecPlatforms == InitPlatforms /\ [][SearchPass]_vars

\* Bearings of platforms and trains: north, the quarter turns and their
\* neighbours.
BearingSamples == {0, 1, 89, 90, 91, 180, 270, 359}

\* The roster after the sync of the first tick, before the search pass: a
\* station block with two default platforms that have a bearing and no
\* stop_ids, and a train sighted for the first time inside it, with a
\* bearing and with no stops.
InitBearings ==
    \E first \in BearingSamples, second \in BearingSamples, bearing \in BearingSamples :
        LET platforms == <<Platform(305, <<>>, TRUE, first),
                           Platform(306, <<>>, TRUE, second)>>
            feed == <<Report(1, 59101, PtC, Undefined, bearing, "EAST-201", <<>>, 1000)>>
        IN /\ scenario = "bearings"
           /\ feedIds = "own"
           /\ trackBlocks = <<Block(300, Undefined, 12000, 13000, platforms)>>
           /\ config = Config(FALSE, TRUE)
           /\ entities = feed
           /\ trainEntities = feed
           /\ trainPairs = <<>>
           /\ invisibleTrains = <<>>
           /\ trackedTrains = syncTrainData(<<>>, feed, 1, 1000)
           /\ ledRailsAPIs = <<>>
           /\ now = 1000
           /\ ticks = 0
           /\ event = "synced"
           /\ isFetchInProgress = FALSE
           /\ inFlight = 0
           /\ pc = "idle"
           /\ board = 0
           /\ pending = <<>>
           /\ observed = [board |-> 0, output |-> <<>>]
           /\ published = [prev |-> <<>>, next |-> <<>>]
           /\ replies = <<Answer(feed)>>
           /\ process = "running"

SpecBearings == InitBearings /\ [][SearchPass]_vars

\* Scenario "offset".  What floor(Math.random() * (updateInterval - 1)) can
\* be: Math.random() is at least 0 and less than 1.
RandomDraws(updateInterval) ==
    IF updateInterval <= 1 THEN {0} ELSE 0..(updateInterval - 2)

\* Two board revisions of a network whose fetchIntervalSeconds is
\* updateInterval, without and with randomizeTimeOffset.
OffsetBoards(updateInterval) ==
    LET api == [Board("100", <<>>) EXCEPT !.updateInterval = updateInterval,
                                         !.output.update = updateInterval]
    IN <<api, [api EXCEPT !.version = "110", !.randomizeTimeOffset = TRUE]>>

\* The roster after the block passes of a tick: one train in block 2 that
\* came from block 1 or was there before, its last report a number of
\* seconds old (or, with a negative age, stamped later than now).
InitOffset ==
    \E updateInterval \in 1..MaxInterval, previous \in {1, 2} :
        \E age \in {-5, 0, 1, updateInterval - 1, updateInterval, updateInterval + 1,
                    DefaultDisplayThreshold} :
            LET apis == OffsetBoards(updateInterval)
                feed == <<Report(59101, 59101, PtB, 10, 90, "EAST-201", <<>>, 1000 - age)>>
            IN /\ scenario = "offset"
               /\ feedIds = "vehicle"
               /\ trackBlocks = MapAltIsLed
               /\ config = Config(FALSE, TRUE)
               /\ entities = feed
               /\ trainEntities = feed
               /\ trainPairs = <<>>
               /\ invisibleTrains = <<>>
               /\ trackedTrains = <<[addNewTrain(feed[1], 1000) EXCEPT
                                        !.currentBlock = 2,
                                        !.previousBlock = previous]>>
               /\ ledRailsAPIs = apis
               /\ now = 1000
               /\ ticks = 0
               /\ event = "assigned"
               /\ isFetchInProgress = FALSE
               /\ inFlight = 0
               /\ pc = "idle"
               /\ board = 0
               /\ pending = <<>>
               /\ observed = [board |-> 0, output |-> <<>>]
               /\ published = [prev |-> Outputs(apis), next |-> Outputs(apis)]
               /\ replies = <<Answer(feed)>>
               /\ process = "running"

\* updateLEDRailsAPIs() at the end of the tick, with one draw of
\* Math.random() for the train.
LedPass ==
    /\ event = "assigned"
    /\ \E r \in RandomDraws(ledRailsAPIs[1].updateInterval) :
          ledRailsAPIs' = updateLEDRailsAPIs(ledRailsAPIs, trackedTrains,
                                             invisibleTrains, now,
                                             [i \in 1..8 |-> r])
    /\ published' = [prev |-> Outputs(ledRailsAPIs), next |-> Outputs(ledRailsAPIs')]
    /\ event' = "led"
    /\ UNCHANGED <<scenario, feedIds, trackBlocks, config, Network, now, ticks,
                   isFetchInProgress, inFlight, pc, board, pending, observed,
                   process, replies>>

SpecOffset == InitOffset /\ [][LedPass]_vars

\* Scenario "remap": the rules a board revision can be configured with,
\* over a few block numbers, and the lists of one or two of them.
RemapRules ==
    {rule \in [start : 2..4, end : 2..4, offset : {-2, -1, 1, 3}] :
        rule.start <= rule.end}

RemapLists ==
    {<<rule>> : rule \in RemapRules} \cup
    {<<rule, other>> : rule \in RemapRules, other \in RemapRules}

\* A board whose output holds one update that has not been remapped yet.
InitRemap ==
    \E rules \in RemapLists, previous \in {0, 2, 3}, current \in 1..5 :
        LET raw == [Board("120", rules) EXCEPT
                       !.output.updates = <<[b |-> <<previous, current>>, c |-> 0,
                                             t |-> 0, train |-> 59101]>>]
        IN /\ scenario = "remap"
           /\ feedIds = "own"
           /\ trackBlocks = <<>>
           /\ config = Config(FALSE, FALSE)
           /\ entities = <<>>
           /\ trainEntities = <<>>
           /\ trainPairs = <<>>
           /\ invisibleTrains = <<>>
           /\ trackedTrains = <<>>
           /\ ledRailsAPIs = <<raw>>
           /\ now = 1000
           /\ ticks = 0
           /\ event = "raw"
           /\ isFetchInProgress = FALSE
           /\ inFlight = 0
           /\ pc = "idle"
           /\ board = 1
           /\ pending = <<>>
           /\ observed = [board |-> 1, output |-> raw.output]
           /\ published = [prev |-> Outputs(<<raw>>), next |-> Outputs(<<raw>>)]
           /\ replies = <<>>
           /\ process = "running"

\* The remap of generateLedMap, applied to the updates of the board, a
\* first and a second time; published holds the output before and after.
RemapAgain ==
    /\ event \in {"raw", "once"}
    /\ ledRailsAPIs' =
          [ledRailsAPIs EXCEPT ![board].output.updates =
              RemapUpdates(ledRailsAPIs[board].blockRemap,
                           ledRailsAPIs[board].output.updates)]
    /\ published' = [prev |-> Outputs(ledRailsAPIs), next |-> Outputs(ledRailsAPIs')]
    /\ event' = IF event = "raw" THEN "once" ELSE "twice"
    /\ UNCHANGED <<scenario, feedIds, trackBlocks, config, Network, now, ticks,
                   isFetchInProgress, inFlight, pc, board, pending, observed,
                   process, replies>>

SpecRemap == InitRemap /\ [][RemapAgain]_vars

\* Scenario "colors".  The colors of a config are the list of its
\* [route, rgb] members as the file declares them, every route once.  A
\* route id that is the canonical numeral of an integer is an integer key
\* of the parsed object; the numerals of the model are tabulated.
IntegerKey(route) ==
    CASE route = "2" -> 2
      [] route = "10" -> 10
      [] OTHER -> Undefined

\* Object.entries(colors): the integer keys in ascending numeric order, then
\* the other keys in the order of their creation.
ObjectEntries(declared) ==
    LET numbered == {i \in DOMAIN declared : IntegerKey(declared[i].route) /= Undefined}
        named == DOMAIN declared \ numbered
        place(i) ==
            IF i \in numbered
            THEN 1 + Cardinality({j \in numbered :
                     IntegerKey(declared[j].route) < IntegerKey(declared[i].route)})
            ELSE Cardinality(numbered) + 1 + Cardinality({j \in named : j < i})
    IN [k \in DOMAIN declared |->
           declared[CHOOSE i \in DOMAIN declared : place(i) = k]]

ColorIdOf_FromOne(entries, route) ==
    FirstIndex({k \in DOMAIN entries : entries[k].route = route})

\* let colorId = 0; for (...) { routeToColorId[routeId] = colorId; colorId++; }
ColorIdOf(entries, route) ==
    FirstIndex({k \in DOMAIN entries : entries[k].route = route}) - 1

\* The board the constructor pushes for one entry of APIVersions.
NewBoard(cfg, version, blockRemap) ==
    LET entries == ObjectEntries(cfg.colors)
        routes == {entries[k].route : k \in DOMAIN entries}
        routeToColorId == [route \in routes |-> ColorIdOf(entries, route)]
        IdToColor == [colorId \in {routeToColorId[route] : route \in routes} |->
                         entries[CHOOSE k \in DOMAIN entries :
                                    routeToColorId[entries[k].route] = colorId].rgb]
    IN [version |-> version,
        routeToColorId |-> routeToColorId,
        blockRemap |-> blockRemap,
        displayThreshold |-> cfg.displayThreshold,
        randomizeTimeOffset |-> FALSE,
        updateInterval |-> FetchIntervalSeconds,
        output |-> [version |-> version, timestamp |-> 0,
                    update |-> FetchIntervalSeconds, colors |-> IdToColor,
                    updates |-> <<>>]]

ColorRoutes == {"EAST-201", "WEST-201", "2", "10"}

RgbOf(route) ==
    CASE route = "EAST-201" -> <<255, 0, 0>>
      [] route = "WEST-201" -> <<0, 255, 0>>
      [] route = "2" -> <<0, 0, 255>>
      [] OTHER -> <<255, 128, 0>>

\* Every list of different routes, each with its color.
ColorDeclarations ==
    UNION {{[k \in 1..n |-> [route |-> pick[k], rgb |-> RgbOf(pick[k])]] :
               pick \in {q \in [1..n -> ColorRoutes] :
                            \A i, j \in 1..n : q[i] = q[j] => i = j}} :
           n \in 0..4}

\* The network before the constructor has read the LEDRailsAPI part of its
\* config.
InitColors ==
    \E declared \in ColorDeclarations :
        /\ InitNetwork("colors", "own", <<>>,
                       [Config(FALSE, FALSE) EXCEPT !.colors = declared], <<>>)
        /\ process = "starting"

\* for (const { version, blockRemap } of APIVersions) of the constructor,
\* for the two board revisions of Boards.
BuildBoards ==
    /\ event = "init"
    /\ ledRailsAPIs' = [index \in DOMAIN Boards |->
                           NewBoard(config, Boards[index].version,
                                    Boards[index].blockRemap)]
    /\ event' = "built"
    /\ UNCHANGED <<scenario, feedIds, trackBlocks, config, Network, now, ticks,
                   isFetchInProgress, inFlight, pc, board, pending, observed,
                   published, process, replies>>

SpecColors == InitColors /\ [][BuildBoards]_vars

\* Scenario "load": up to three placemarks as loadTrackBlocks has parsed
\* them (loadedBlocks), the k-th with a polygon of its own, with block
\* number 1 or 2, with or without routes, with or without priority.
Placemark(k, number, routes, priority) ==
    [Block(number, Undefined, 10000 + 1000 * k, 11000 + 1000 * k, <<>>)
        EXCEPT !.routes = routes, !.priority = priority]

LoadedLists ==
    UNION {{[k \in 1..n |-> Placemark(k, number[k], routes[k], priority[k])] :
               number \in [1..n -> {1, 2}],
               routes \in [1..n -> {<<>>, <<"EAST">>}],
               priority \in [1..n -> BOOLEAN]} :
           n \in 1..3}

\* The comparator of the sort: blocks with routes first, then priority.
compareBlocks(a, b) ==
    IF a.routes /= <<>> /\ b.routes = <<>> THEN -1
    ELSE IF a.routes = <<>> /\ b.routes /= <<>> THEN 1
    ELSE IF a.priority /\ ~b.priority THEN -1
    ELSE IF ~a.priority /\ b.priority THEN 1
    ELSE 0

\* Array.prototype.sort with compareBlocks, which is stable.
RECURSIVE SortBlocks(_)
SortBlocks(list) ==
    IF list = <<>> THEN <<>>
    ELSE LET front == SortBlocks(SubSeq(list, 1, Len(list) - 1))
             x == list[Len(list)]
             before == {i \in DOMAIN front : compareBlocks(front[i], x) <= 0}
             cut == IF before = {} THEN 0
                    ELSE CHOOSE i \in before : \A j \in before : j <= i
         IN SubSeq(front, 1, cut) \o <<x>> \o SubSeq(front, cut + 1, Len(front))

\* trackBlocks.set(block.blockNumber, block) for every block of the list: a
\* key that the map holds keeps its place and takes the new value.
RECURSIVE MapOfBlocks(_)
MapOfBlocks(list) ==
    IF list = <<>> THEN <<>>
    ELSE LET front == MapOfBlocks(SubSeq(list, 1, Len(list) - 1))
             block == list[Len(list)]
             at == BlockGet(front, block.blockNumber)
         IN IF at /= 0 THEN [front EXCEPT ![at] = block] ELSE Append(front, block)

InitLoad ==
    \E loadedBlocks \in LoadedLists :
        /\ InitNetwork("load", "own", loadedBlocks, Config(FALSE, TRUE), <<>>)
        /\ process = "starting"

\* The end of loadTrackBlocks: trackBlocks holds loadedBlocks before and
\* the map after.
LoadTrackBlocks ==
    /\ event = "init"
    /\ trackBlocks' = MapOfBlocks(SortBlocks(trackBlocks))
    /\ event' = "loaded"
    /\ UNCHANGED <<scenario, feedIds, config, Network, ledRailsAPIs, now, ticks,
                   isFetchInProgress, inFlight, pc, board, pending, observed,
                   published, process, replies>>

SpecLoad == InitLoad /\ [][LoadTrackBlocks]_vars

\* Scenario "evict": a store of up to three entities, each stamped now,
\* exactly one hour ago, a second earlier, long ago, ahead of the clock,
\* with timestamp 0 or without timestamp, at a time that is more than the
\* eviction age past the epoch; replies records the list the store was
\* filled from.
EvictStores(clock) ==
    UNION {{[k \in 1..n |-> Report(k, 59100 + k, PtA, Undefined, 90, "EAST-201",
                                    <<>>, stamp[k])] :
               stamp \in [1..n -> {clock, clock - 3600, clock - 3601, clock - 7000,
                                   clock + 10, 0, Undefined}]} :
           n \in 1..3}

InitEvict ==
    \E store \in EvictStores(10000) :
        /\ scenario = "evict"
        /\ feedIds = "own"
        /\ trackBlocks = <<>>
        /\ config = [Config(FALSE, FALSE) EXCEPT !.removeStaleVehiclesHours = 1]
        /\ entities = store
        /\ trainEntities = <<>>
        /\ trainPairs = <<>>
        /\ invisibleTrains = <<>>
        /\ trackedTrains = <<>>
        /\ ledRailsAPIs = <<>>
        /\ now = 10000
        /\ ticks = 0
        /\ event = "init"
        /\ isFetchInProgress = FALSE
        /\ inFlight = 0
        /\ pc = "idle"
        /\ board = 0
        /\ pending = <<>>
        /\ observed = [board |-> 0, output |-> <<>>]
        /\ published = [prev |-> <<>>, next |-> <<>>]
        /\ replies = <<Answer(store)>>
        /\ process = "running"

SpecEvict == InitEvict /\ [][RemoveStaleVehicles]_vars

\* The % of the program: the remainder has the sign of the dividend.
Remainder(a, n) == IF a >= 0 THEN a % n ELSE -((-a) % n)

\* The bearing of a platform line from its token 'Ndeg':
\* if (bearing < 0) bearing += 360; bearing %= 360.
ParseBearing(N) == Remainder(IF N < 0 THEN N + 360 ELSE N, 360)

\* Scenario "token": a station placemark whose description has one default
\* platform line with the token 'Ndeg'; before the line is parsed the
\* platform holds N as the token gives it.
InitToken ==
    \E N \in -MaxDegrees..MaxDegrees :
        /\ InitNetwork("token", "own",
                       <<Block(300, Undefined, 12000, 13000,
                               <<Platform(305, <<>>, TRUE, N)>>)>>,
                       Config(FALSE, TRUE), <<>>)
        /\ process = "starting"

\* The bearing part of the platform line parser of loadTrackBlocks.
ParseToken ==
    /\ event = "init"
    /\ trackBlocks' = [trackBlocks EXCEPT ![1].platforms[1].bearing =
                          ParseBearing(trackBlocks[1].platforms[1].bearing)]
    /\ event' = "parsed"
    /\ UNCHANGED <<scenario, feedIds, config, Network, ledRailsAPIs, now, ticks,
                   isFetchInProgress, inFlight, pc, board, pending, observed,
                   published, process, replies>>

SpecToken == InitToken /\ [][ParseToken]_vars

NextStore ==
    \/ StoreTick
    \/ RemoveStaleVehicles

SpecStore == InitStore /\ [][NextStore]_vars

\* A network with train pairing and stale-vehicle eviction after one hour,
\* without track blocks and boards, whose feed names its entities by the
\* vehicle id.
InitLeave ==
    /\ InitNetwork("leave", "vehicle", <<>>,
                   [Config(TRUE, FALSE) EXCEPT !.removeStaleVehiclesHours = 1],
                   <<>>)
    /\ process = "running"

\* A tick the fetch interval, or longer than the eviction age, after the
\* tick before.
LeaveTick ==
    \E gap \in {FetchIntervalSeconds, config.removeStaleVehiclesHours * 3600 + 400} :
        \E feed \in Feeds(scenario, feedIds, now + gap) :
            Tick(<<Answer(feed)>>, gap)

NextLeave ==
    \/ LeaveTick
    \/ RemoveStaleVehicles

SpecLeave == InitLeave /\ [][NextLeave]_vars

----------------------------------------------------------------------------
(* The server process: the refresh timer, the completion of the fetch, the  *)
(* statements of generateLedMap one by one, and the HTTP handlers that      *)
(* serve a board output.  Node runs a callback to completion: the event     *)
(* loop takes the next timer, fetch completion or HTTP request only when    *)
(* the running code has returned or waits for I/O.                          *)

RunToCompletion_Off(position) == TRUE

RunToCompletion(position) == position = "idle"

\* if (isFetchInProgress) { log(...); return; }
FetchGuard_Off(flag) == FALSE

FetchGuard(flag) == flag

\* initializeServer awaits a first call of refreshRealtimeData before it
\* sets the timers and before the server listens.
InitialFetch ==
    /\ process = "starting"
    /\ RunToCompletion(pc)
    /\ inFlight = 0
    /\ ~FetchGuard(isFetchInProgress)
    /\ isFetchInProgress' = TRUE
    /\ inFlight' = inFlight + 1
    /\ pending' = Append(pending, now)
    /\ event' = "start"
    /\ UNCHANGED <<scenario, feedIds, trackBlocks, config, Network,
                   ledRailsAPIs, now, ticks, pc, board, observed, published,
                   process, replies>>

\* The timer fires and refreshRealtimeData starts a run: it takes the guard
\* and waits for the fetch.
TimerStart ==
    /\ ticks < MaxTicks
    /\ process = "running"
    /\ RunToCompletion(pc)
    /\ ~FetchGuard(isFetchInProgress)
    /\ isFetchInProgress' = TRUE
    /\ inFlight' = inFlight + 1
    /\ now' = now + FetchIntervalSeconds
    /\ pending' = Append(pending, now')
    /\ ticks' = ticks + 1
    /\ event' = "start"
    /\ UNCHANGED <<scenario, feedIds, trackBlocks, config, Network,
                   ledRailsAPIs, pc, board, observed, published, process,
                   replies>>

\* The timer fires while the guard is taken: the call logs and returns.
TimerSkip ==
    /\ ticks < MaxTicks
    /\ process = "running"
    /\ RunToCompletion(pc)
    /\ FetchGuard(isFetchInProgress)
    /\ now' = now + FetchIntervalSeconds
    /\ ticks' = ticks + 1
    /\ event' = "skip"
    /\ UNCHANGED <<scenario, feedIds, trackBlocks, config, Network,
                   ledRailsAPIs, isFetchInProgress, inFlight, pc, board,
                   pending, observed, published, process, replies>>

\* The fetch of the oldest waiting run completes: getGTFSRealtimeData runs
\* to its end and update() enters updateLEDRailsAPIs.
FetchDone(feed) ==
    /\ process /= "exited"
    /\ RunToCompletion(pc)
    /\ pending /= <<>>
    /\ replies' = <<Answer(feed)>>
    /\ LET net == getGTFSRealtimeData(config, trackBlocks, Net,
                      FetchAll(config, <<Answer(feed)>>), <<>>, now)
       IN /\ entities' = net.entities
          /\ trainEntities' = net.trainEntities
          /\ trainPairs' = net.trainPairs
          /\ invisibleTrains' = net.invisibleTrains
          /\ trackedTrains' = net.trackedTrains
          /\ published' =
                [prev |-> published.next,
                 next |-> Outputs(updateLEDRailsAPIs(ledRailsAPIs,
                              net.trackedTrains, net.invisibleTrains, now, NoRand))]
    /\ pending' = Tail(pending)
    /\ pc' = IF Len(ledRailsAPIs) > 0 THEN "reset" ELSE "finally"
    /\ board' = IF Len(ledRailsAPIs) > 0 THEN 1 ELSE 0
    /\ event' = "fetched"
    /\ UNCHANGED <<scenario, feedIds, trackBlocks, config, ledRailsAPIs, now,
                   ticks, isFetchInProgress, inFlight, observed, process>>

\* The fetch of the oldest waiting run fails: the request rejects, the
\* status is not 2xx (throw new Error) or response.json() rejects.  The
\* exception leaves the try block.
FetchFail(kind) ==
    /\ process /= "exited"
    /\ RunToCompletion(pc)
    /\ pending /= <<>>
    /\ replies' = <<[kind |-> kind, entity |-> <<>>]>>
    /\ pending' = Tail(pending)
    /\ pc' = "rethrow"
    /\ event' = "failed"
    /\ UNCHANGED <<scenario, feedIds, trackBlocks, config, Network,
                   ledRailsAPIs, now, ticks, isFetchInProgress, inFlight,
                   board, observed, published, process>>

LedStep(position, next, updates, timestamp, nextBoard) ==
    /\ pc = position
    /\ board \in DOMAIN ledRailsAPIs
    /\ ledRailsAPIs' = [ledRailsAPIs EXCEPT ![board].output.updates = updates,
                                            ![board].output.timestamp = timestamp]
    /\ pc' = next
    /\ board' = nextBoard
    /\ event' = position
    /\ UNCHANGED <<scenario, feedIds, trackBlocks, config, Network, now, ticks,
                   isFetchInProgress, inFlight, pending, observed, published,
                   process, replies>>

\* api.output.updates = [];
LedReset ==
    LedStep("reset", "fill", <<>>, ledRailsAPIs[board].output.timestamp, board)

\* trackedTrains.filter(...).filter(...).forEach(train => ... push ...)
LedFill ==
    LedStep("fill", "remap",
            LedUpdates(ledRailsAPIs[board], trackedTrains, invisibleTrains, now, NoRand),
            ledRailsAPIs[board].output.timestamp, board)

\* if (api.blockRemap != undefined) api.output.updates = ...map(...)
LedRemap ==
    LedStep("remap", "stamp",
            RemapUpdates(ledRailsAPIs[board].blockRemap,
                         ledRailsAPIs[board].output.updates),
            ledRailsAPIs[board].output.timestamp, board)

\* api.output.timestamp = now; and the loop of updateLEDRailsAPIs goes on
\* to the next board or ends.
LedStamp ==
    IF board < Len(ledRailsAPIs)
    THEN LedStep("stamp", "reset", ledRailsAPIs[board].output.updates, now, board + 1)
    ELSE LedStep("stamp", "finally", ledRailsAPIs[board].output.updates, now, 0)

\* finally { isFetchInProgress = false; } after a run without exception;
\* when it was the first run, initializeServer goes on to set the timers
\* and to listen.
Finally ==
    /\ pc = "finally"
    /\ pc' = "idle"
    /\ isFetchInProgress' = FALSE
    /\ inFlight' = inFlight - 1
    /\ process' = IF process = "starting" THEN "running" ELSE process
    /\ event' = "tick"
    /\ UNCHANGED <<scenario, feedIds, trackBlocks, config, Network,
                   ledRailsAPIs, now, ticks, board, pending, observed,
                   published, replies>>

\* finally { isFetchInProgress = false; } on the way of an exception, which
\* no catch stops: thrown by the first run it rejects initializeServer(),
\* whose catch calls process.exit(1); thrown by a run the timer started it
\* is an unhandled rejection, which the runtime either reports (survives
\* is TRUE) or answers by ending the process.
FinallyRethrow(survives) ==
    /\ pc = "rethrow"
    /\ pc' = "idle"
    /\ isFetchInProgress' = FALSE
    /\ inFlight' = inFlight - 1
    /\ process' = IF process = "running" /\ survives THEN "running" ELSE "exited"
    /\ event' = "threw"
    /\ UNCHANGED <<scenario, feedIds, trackBlocks, config, Network,
                   ledRailsAPIs, now, ticks, board, pending, observed,
                   published, replies>>

\* app.get('/<network>-ltm/<version>.json'): res.json(output of the board)
HttpRead(index) ==
    /\ process = "running"
    /\ RunToCompletion(pc)
    /\ observed' = [board |-> index, output |-> ledRailsAPIs[index].output]
    /\ event' = "read"
    /\ UNCHANGED <<scenario, feedIds, trackBlocks, config, Network,
                   ledRailsAPIs, now, ticks, isFetchInProgress, inFlight, pc,
                   board, pending, published, process, replies>>

InitServer ==
    /\ InitNetwork("server", "vehicle", MapAltIsLed, Config(TRUE, TRUE), Boards)
    /\ process = "starting"

NextServer ==
    \/ InitialFetch
    \/ TimerStart
    \/ TimerSkip
    \/ \E feed \in Feeds(scenario, feedIds, now) : FetchDone(feed)
    \/ \E kind \in {"network", "status", "malformed"} : FetchFail(kind)
    \/ \E survives \in BOOLEAN : FinallyRethrow(survives)
    \/ LedReset
    \/ LedFill
    \/ LedRemap
    \/ LedStamp
    \/ Finally
    \/ \E index \in DOMAIN ledRailsAPIs : HttpRead(index)

SpecServer == InitServer /\ [][NextServer]_vars

----------------------------------------------------------------------------
(* Properties of the block assignment and the LED generator.                *)

Visible(train) == train.trainId \notin Range(invisibleTrains)

VisibleIn(blockNumber) ==
    {i \in DOMAIN trackedTrains :
        Visible(trackedTrains[i]) /\ trackedTrains[i].currentBlock = blockNumber}

BlockNumbers == {trackBlocks[k].blockNumber : k \in DOMAIN trackBlocks}
AltBlocks == {trackBlocks[k].altBlock : k \in DOMAIN trackBlocks} \ {Undefined}
PlatformNumbers ==
    UNION {{trackBlocks[k].platforms[p].blockNumber :
               p \in DOMAIN trackBlocks[k].platforms} : k \in DOMAIN trackBlocks}

\* C1: after the block-assignment stage of every tick, every block B has at
\* most one visible train with currentBlock = B.blockNumber and at most one
\* visible train with currentBlock = B.altBlock.
C1_OneVisibleTrainPerBlock ==
    event = "tick" =>
        \A k \in DOMAIN trackBlocks :
            /\ Cardinality(VisibleIn(trackBlocks[k].blockNumber)) <= 1
            /\ trackBlocks[k].altBlock /= Undefined =>
                   Cardinality(VisibleIn(trackBlocks[k].altBlock)) <= 1

\* C2: in every reachable roster state a train whose currentBlock is
\* defined has previousBlock defined (possibly the sentinel 0).
C2_PreviousDefinedWithCurrent ==
    \A i \in DOMAIN trackedTrains :
        trackedTrains[i].currentBlock /= Undefined =>
            trackedTrains[i].previousBlock /= Undefined

\* A tick has assigned a first block (previousBlock is the sentinel 0) to one
\* train and moved another one between blocks.
C2_Witness ==
    /\ event = "tick"
    /\ \E i \in DOMAIN trackedTrains :
          trackedTrains[i].currentBlock > 0 /\ trackedTrains[i].previousBlock = 0
    /\ \E i \in DOMAIN trackedTrains :
          /\ trackedTrains[i].currentBlock > 0
          /\ trackedTrains[i].previousBlock > 0
          /\ trackedTrains[i].previousBlock /= trackedTrains[i].currentBlock

\* C3 as stated: the currentBlock of every roster train is undefined, the
\* blockNumber of a block of the map, or the altBlock of a block of the map.
C3_CurrentBlockIsKeyOrAlt ==
    \A i \in DOMAIN trackedTrains :
        trackedTrains[i].currentBlock \in {Undefined} \cup BlockNumbers \cup AltBlocks

\* C3 amended: the currentBlock of every roster train is undefined, the
\* blockNumber of a block of the map, the altBlock of a block of the map, or
\* the blockNumber of a platform of a block of the map.
C3_CurrentBlockIsOnMap ==
    \A i \in DOMAIN trackedTrains :
        trackedTrains[i].currentBlock \in
            {Undefined} \cup BlockNumbers \cup AltBlocks \cup PlatformNumbers

\* The roster holds a train on a platform that is no block of its own and
\* a train moved to an alternate block that is no block of its own.
C3_Witness ==
    /\ event = "tick"
    /\ \E i \in DOMAIN trackedTrains :
          trackedTrains[i].currentBlock \in PlatformNumbers \ BlockNumbers
    /\ \E i \in DOMAIN trackedTrains :
          trackedTrains[i].currentBlock \in AltBlocks \ BlockNumbers

\* The roster trains a board is to display: seen within displayThreshold of
\* the tick, not invisible, both blocks defined, route with a color id.
Qualifying(api) ==
    {i \in DOMAIN trackedTrains :
        /\ trackedTrains[i].timestamp >= now - api.displayThreshold
        /\ Visible(trackedTrains[i])
        /\ trackedTrains[i].currentBlock /= Undefined
        /\ trackedTrains[i].previousBlock /= Undefined
        /\ trackedTrains[i].route \in DOMAIN api.routeToColorId}

UpdatesFor(api, trainId) ==
    {k \in DOMAIN api.output.updates : api.output.updates[k].train = trainId}

\* C4: after a call of generateLedMap the updates of a board hold exactly
\* one entry for every qualifying roster train and no other entry.
C4_OneUpdatePerQualifyingTrain ==
    event = "tick" =>
        \A a \in DOMAIN ledRailsAPIs :
            LET api == ledRailsAPIs[a]
            IN /\ Len(api.output.updates) = Cardinality(Qualifying(api))
               /\ \A i \in Qualifying(api) :
                     Cardinality(UpdatesFor(api, trackedTrains[i].trainId)) = 1
               /\ \A k \in DOMAIN api.output.updates :
                     \E i \in Qualifying(api) :
                        api.output.updates[k].train = trackedTrains[i].trainId

\* A board displays one train while the roster also holds a train in a
\* block whose route has no color id and an invisible train in a block whose
\* route has one.
C4_Witness ==
    /\ event = "tick"
    /\ \E a \in DOMAIN ledRailsAPIs :
          /\ Len(ledRailsAPIs[a].output.updates) = 1
          /\ \E i \in DOMAIN trackedTrains :
                /\ trackedTrains[i].currentBlock /= Undefined
                /\ trackedTrains[i].timestamp >= now - ledRailsAPIs[a].displayThreshold
                /\ trackedTrains[i].route \notin DOMAIN ledRailsAPIs[a].routeToColorId
          /\ \E i \in DOMAIN trackedTrains :
                /\ trackedTrains[i].currentBlock /= Undefined
                /\ trackedTrains[i].timestamp >= now - ledRailsAPIs[a].displayThreshold
                /\ trackedTrains[i].route \in DOMAIN ledRailsAPIs[a].routeToColorId
                /\ ~Visible(trackedTrains[i])

----------------------------------------------------------------------------
(* Properties of the pair detector.                                         *)

\* The feed entities of the filtered train set a pair was formed from.
PairEntities(pair, n) ==
    {k \in DOMAIN trainEntities : trainEntities[k].id = pair.vehicleIds[n]}

RosterOf(vid) == {i \in DOMAIN trackedTrains : trackedTrains[i].trainId = vid}

\* The roster knows the vehicle, and the board would display it if it were
\* visible: seen within displayThreshold, in a block, route with a color id.
Displayable(api, vid) ==
    \E i \in RosterOf(vid) :
        /\ trackedTrains[i].timestamp >= now - api.displayThreshold
        /\ trackedTrains[i].currentBlock /= Undefined
        /\ trackedTrains[i].previousBlock /= Undefined
        /\ trackedTrains[i].route \in DOMAIN api.routeToColorId

\* C5: in a tick in which the detector holds a pair of two vehicles that
\* are both in the roster, fresh, in a block and color-mapped, the output
\* of every board has exactly one update for the two vehicles together.
C5_OneUpdatePerPair ==
    event = "tick" =>
        \A p \in DOMAIN trainPairs :
            \A ka \in PairEntities(trainPairs[p], 1), kb \in PairEntities(trainPairs[p], 2) :
                \A a \in DOMAIN ledRailsAPIs :
                    LET api == ledRailsAPIs[a]
                        vidA == trainEntities[ka].vid
                        vidB == trainEntities[kb].vid
                    IN Displayable(api, vidA) /\ Displayable(api, vidB) =>
                          Cardinality(UpdatesFor(api, vidA) \cup UpdatesFor(api, vidB)) = 1

PairInvisible(pair) ==
    {n \in 1..2 : pair.vehicleIds[n] \in Range(invisibleTrains)}

\* C6: after checkForTrainPairs exactly one of the two vehicle ids of every
\* pair of the list is in invisibleTrainIds.
C6_OneInvisiblePerPair ==
    event = "tick" =>
        \A p \in DOMAIN trainPairs : Cardinality(PairInvisible(trainPairs[p])) = 1

\* C7: after the detect phase no vehicle id is in more than one pair of the
\* list.
C7_VehicleInOnePair ==
    event = "tick" =>
        \A p, q \in DOMAIN trainPairs :
            p /= q => Range(trainPairs[p].vehicleIds) \cap
                      Range(trainPairs[q].vehicleIds) = {}

\* C8: after the detector ran, the two vehicles of every pair of the list
\* that are both in the filtered train set of the tick are at most
\* maxDistance apart.
C8_PairsWithinBreakDistance ==
    event = "tick" =>
        \A p \in DOMAIN trainPairs :
            \A ka \in PairEntities(trainPairs[p], 1), kb \in PairEntities(trainPairs[p], 2) :
                calculateDistance(trainEntities[ka].latitude, trainEntities[ka].longitude,
                                  trainEntities[kb].latitude, trainEntities[kb].longitude)
                    <= maxDistance

----------------------------------------------------------------------------
(* Properties of the server process.                                        *)

\* C9: an HTTP read of the output of a board returns the complete output of
\* the previous run or the complete output of the new run, never a partly
\* built one.
C9_ReadsSeeCompleteOutput ==
    event = "read" =>
        observed.output \in {published.prev[observed.board],
                             published.next[observed.board]}

\* A read has returned the completed output of a run that changed the
\* updates and remapped a block number.
C9_Witness ==
    /\ event = "read"
    /\ observed.board = 2
    /\ observed.output = published.next[2]
    /\ published.next[2] /= published.prev[2]
    /\ \E k \in DOMAIN observed.output.updates :
          observed.output.updates[k].b[2] = 203

ProgramState ==
    <<trackBlocks, config, Network, ledRailsAPIs, isFetchInProgress, inFlight,
      pc, board, pending, published, process>>

\* C10: at any time at most one run of the pipeline is in flight, and a
\* timer tick that fires during a run changes no state of the network.
C10_TicksDoNotOverlap ==
    /\ [](inFlight <= 1)
    /\ [][event' = "skip" => UNCHANGED ProgramState]_vars

\* The timer has fired during a run and was suppressed.
C10_Witness ==
    /\ event = "skip"
    /\ inFlight = 1
    /\ isFetchInProgress

\* C11: when a run of the pipeline has thrown, the guard is released and the
\* process goes on running, so that the timer keeps firing and the later
\* timer ticks are admitted.
C11_ThrownTickKeepsTimer ==
    event = "threw" => (~isFetchInProgress /\ process = "running")

\* C14: an error of the ingestion (a failed request, a status other than
\* 2xx, a body that cannot be decoded), in the first fetch of the startup or
\* in a later tick, never makes the process exit.
C14_IngestionErrorNeverExits ==
    process /= "exited"

\* signal: AbortController, aborted 15 s after the request was sent.
RequestTimeoutSeconds == 15

\* C15: no request stays outstanding for longer than the timeout of a
\* request, so that the run that waits for it completes.
C15_RequestsEndByTimeout ==
    \A k \in DOMAIN pending : now - pending[k] <= RequestTimeoutSeconds

\* C12: for every board, output.timestamp never decreases from one completed
\* tick to the next (the clock of the host never steps back).
C12_OutputTimestampMonotone ==
    [][\A index \in DOMAIN ledRailsAPIs :
          ledRailsAPIs'[index].output.timestamp
              >= ledRailsAPIs[index].output.timestamp]_vars

\* A later tick has completed with a roster of which nothing is on
\* display any more, and stamped every board with its own time.
C12_Witness ==
    /\ event = "tick"
    /\ ticks >= 2
    /\ trackedTrains /= <<>>
    /\ ledRailsAPIs /= <<>>
    /\ \A index \in DOMAIN ledRailsAPIs :
          /\ ledRailsAPIs[index].output.timestamp = now
          /\ ledRailsAPIs[index].output.updates = <<>>

\* The entities of the answers that were received and decoded, in the order
\* of the URLs.
RECURSIVE Fetched(_, _)
Fetched(urlReplies, k) ==
    IF k > Len(urlReplies) THEN <<>>
    ELSE (IF urlReplies[k].kind = "ok" THEN urlReplies[k].entity ELSE <<>>)
         \o Fetched(urlReplies, k + 1)

\* The store holds, for the vehicle of the i-th fetched entity, the fetched
\* entity of that vehicle that comes last.
StoredAsFetched(store, fetched, i) ==
    LET last == CHOOSE j \in DOMAIN fetched :
                    /\ fetched[j].vid = fetched[i].vid
                    /\ \A l \in DOMAIN fetched :
                          fetched[l].vid = fetched[i].vid => l <= j
    IN \E at \in DOMAIN store : store[at] = fetched[last]

SomeUrlFailed == \E k \in DOMAIN replies : replies[k].kind /= "ok"

\* C13: when one of the URLs of a tick has failed (no answer, a status other
\* than 2xx, a body that cannot be decoded), the tick still completes and
\* the entities the other URLs returned are in the entity store.
C13_FailedUrlOnlyDiscarded ==
    (event \in {"tick", "threw"} /\ SomeUrlFailed) =>
        /\ event = "tick"
        /\ \A i \in DOMAIN Fetched(replies, 1) :
              StoredAsFetched(entities, Fetched(replies, 1), i)

\* C16: no roster entry outlives its entity: every train of the roster is
\* the vehicle of an entity of the store.
C16_RosterWithinStore ==
    \A k \in DOMAIN trackedTrains :
        \E i \in DOMAIN entities :
            TrainIdOf(entities[i]) = trackedTrains[k].trainId

\* C19: after the merge of a tick the store holds at most one entity for a
\* vehicle id, the newly fetched entity for every vehicle id of the fetch,
\* and the entity it held before for every other vehicle id.
C19_MergeNewestWins ==
    [][event' = "tick" =>
          LET fetched == Fetched(replies', 1)
          IN /\ \A i, j \in DOMAIN entities' :
                    entities'[i].vid = entities'[j].vid => i = j
             /\ \A i \in DOMAIN fetched : StoredAsFetched(entities', fetched, i)
             /\ \A i \in DOMAIN entities :
                    (\A j \in DOMAIN fetched : fetched[j].vid /= entities[i].vid)
                        => \E at \in DOMAIN entities' : entities'[at] = entities[i]]_vars

\* A tick has merged two URLs that reported the same vehicle, three times
\* in all, into a store that holds another vehicle from an earlier tick.
C19_Witness ==
    /\ event = "tick"
    /\ Len(replies) = 2
    /\ Len(Fetched(replies, 1)) = 3
    /\ \A i \in DOMAIN Fetched(replies, 1) : Fetched(replies, 1)[i].vid = 59101
    /\ \E i \in DOMAIN entities :
          entities[i].vid = 59101 /\ entities[i].latitude = PtC[1]
                                 /\ entities[i].timestamp = now
    /\ \E i \in DOMAIN entities :
          entities[i].vid = 59102 /\ entities[i].timestamp < now

\* C20: with a train filter configuration that holds no rule, the train
\* list equals the entity store after every tick.
C20_EmptyFilterPassesAll ==
    (event = "tick" /\ config.trainFilter \in {"absent", "empty"}) =>
        trainEntities = entities

\* C17: every trainId appears at most once in the roster.
C17_TrainIdOnceInRoster ==
    \A i, j \in DOMAIN trackedTrains :
        trackedTrains[i].trainId = trackedTrains[j].trainId => i = j

\* A sync was handed two entities without vehicle id, after an earlier sync
\* had entered a vehicle, and the roster holds both trains.
C17_Witness ==
    /\ event = "sync"
    /\ Len(replies[1].entity) = 2
    /\ \A k \in DOMAIN replies[1].entity : replies[1].entity[k].vid = Undefined
    /\ \E i \in DOMAIN trackedTrains : trackedTrains[i].trainId = UNKNOWN
    /\ \E i \in DOMAIN trackedTrains : trackedTrains[i].trainId = 59101

AtZero(train) == train.latitude = 0 /\ train.longitude = 0

\* C18: after every assignment cycle a train of the roster whose position
\* is (0,0) has neither a current nor a previous block.
C18_ZeroPositionHasNoBlock ==
    \A k \in DOMAIN trackedTrains :
        AtZero(trackedTrains[k]) =>
            /\ trackedTrains[k].currentBlock = Undefined
            /\ trackedTrains[k].previousBlock = Undefined

\* A tick has just reported, at (0,0), a train that an earlier tick had
\* entered in the roster, on a map with a block drawn around (0,0), while
\* another train holds a block.
C18_Witness ==
    /\ event = "tick"
    /\ \E b \in DOMAIN trackBlocks :
          isPointInPolygon(0, 0, trackBlocks[b].polygon)
    /\ \E k \in DOMAIN trackedTrains :
          /\ AtZero(trackedTrains[k])
          /\ trackedTrains[k].timestamp = now
          /\ k < Len(trackedTrains)
    /\ \E k \in DOMAIN trackedTrains : trackedTrains[k].currentBlock /= Undefined

\* The entity of the train list that a sync hands to the roster entry train.
SyncedEntity(trains, train) ==
    {e \in Range(trains) : TrainIdOf(e) = train.trainId}

\* C21: when a sync handles an entity of a tracked train whose position
\* differs from the stored one and whose speed the feed provides, the stored
\* position becomes 0.95 * old + 0.05 * reported if the stored and the
\* reported speed are both 0, and the reported position otherwise.
C21_PositionSmoothedOrOverwritten ==
    [][event' = "tick" =>
          \A k \in DOMAIN trackedTrains :
              \A e \in SyncedEntity(trainEntities', trackedTrains[k]) :
                  (/\ e.speed /= Undefined
                   /\ \/ e.latitude /= trackedTrains[k].latitude
                      \/ e.longitude /= trackedTrains[k].longitude)
                  => IF e.speed = 0 /\ trackedTrains[k].speed = 0
                     THEN /\ trackedTrains'[k].latitude =
                                (19 * trackedTrains[k].latitude + e.latitude) \div 20
                          /\ trackedTrains'[k].longitude =
                                (19 * trackedTrains[k].longitude + e.longitude) \div 20
                     ELSE /\ trackedTrains'[k].latitude = e.latitude
                          /\ trackedTrains'[k].longitude = e.longitude]_vars

\* The block a roster entry held before the tick: the currentBlock of the
\* k-th train, Undefined for a train the roster did not hold yet.
HeldBefore(k) ==
    IF k \in DOMAIN trackedTrains THEN trackedTrains[k].currentBlock
    ELSE Undefined

\* C22: a train that holds a block after a tick has as previousBlock the
\* currentBlock it held before the tick, or the sentinel 0 if it held none,
\* and a board without remap publishes b = [previousBlock, currentBlock]
\* for it: [0,X] at the first sighting, [A,X] when it moves from A to X,
\* [X,X] when it stays.
C22_PreviousIsPriorCurrent ==
    [][event' = "tick" =>
          \A k \in DOMAIN trackedTrains' :
              trackedTrains'[k].currentBlock /= Undefined =>
                  /\ trackedTrains'[k].previousBlock =
                        IF HeldBefore(k) = Undefined THEN 0 ELSE HeldBefore(k)
                  /\ \A u \in Range(ledRailsAPIs'[1].output.updates) :
                        u.train = trackedTrains'[k].trainId =>
                            u.b = <<trackedTrains'[k].previousBlock,
                                    trackedTrains'[k].currentBlock>>]_vars

\* A board shows a train that has moved from one block to another, and a
\* train that has stayed in its block.
C22_Witness ==
    /\ event = "tick"
    /\ \E u \in Range(ledRailsAPIs[1].output.updates) :
          u.b[1] /= 0 /\ u.b[1] /= u.b[2]
    /\ \E u \in Range(ledRailsAPIs[1].output.updates) :
          u.b[1] /= 0 /\ u.b[1] = u.b[2]

\* The reported position of entity e lies inside no block of the map that
\* admits its route.
InsideNoBlock(blocks, e) ==
    \A b \in DOMAIN blocks :
        ~(/\ isPointInPolygon(e.latitude, e.longitude, blocks[b].polygon)
          /\ RouteAllowed(blocks[b].routes, RouteOf(e)))

\* C23: when a train that holds a block is reported, fresh, at another
\* position that lies inside no block admitted for its route, then after
\* that tick it has neither a current nor a previous block and no board
\* carries an update for it.
C23_LeftTheMapClearsBlocks ==
    [][event' = "tick" =>
          \A k \in DOMAIN trackedTrains :
              \A e \in SyncedEntity(trainEntities', trackedTrains[k]) :
                  (/\ trackedTrains[k].currentBlock /= Undefined
                   /\ e.timestamp >= now' - config.displayThreshold
                   /\ \/ e.latitude /= trackedTrains[k].latitude
                      \/ e.longitude /= trackedTrains[k].longitude
                   /\ InsideNoBlock(trackBlocks, e))
                  => /\ trackedTrains'[k].currentBlock = Undefined
                     /\ trackedTrains'[k].previousBlock = Undefined
                     /\ \A index \in DOMAIN ledRailsAPIs' :
                           \A u \in Range(ledRailsAPIs'[index].output.updates) :
                               u.train /= trackedTrains[k].trainId]_vars

\* Train i comes before train j in the order of the alt-block pass: route
\* ascending with OUT-OF-SERVICE last, and the roster order among equals.
ComesBefore(i, j) ==
    \/ compareTrains(trackedTrains[i], trackedTrains[j]) < 0
    \/ compareTrains(trackedTrains[i], trackedTrains[j]) = 0 /\ i < j

RankIn(group, i) == 1 + Cardinality({j \in group : ComesBefore(j, i)})

\* C24: when more than one visible train has currentBlock B after the
\* search pass, then after the alt-block pass the first of them in the
\* order holds B, the second holds the altBlock of B if B has one, and every
\* other one is in invisibleTrainIds and still holds B.
C24_AltPassPlacesByRank ==
    [][event' = "alt" =>
          \A b \in DOMAIN trackBlocks :
              LET B == trackBlocks[b]
                  group == VisibleIn(B.blockNumber)
              IN Cardinality(group) > 1 =>
                    \A i \in group :
                        IF RankIn(group, i) = 1
                        THEN trackedTrains'[i].currentBlock = B.blockNumber
                        ELSE IF RankIn(group, i) = 2 /\ B.altBlock /= Undefined
                        THEN trackedTrains'[i].currentBlock = B.altBlock
                        ELSE /\ trackedTrains'[i].currentBlock = B.blockNumber
                             /\ trackedTrains'[i].trainId
                                    \in Range(invisibleTrains')]_vars

\* The stop_ids of a platform and the stops of a train have a stop in common.
StopsMeet(platform, train) ==
    \E a \in DOMAIN platform.stop_ids, b \in DOMAIN train.stops :
        platform.stop_ids[a] = train.stops[b].stopId

\* The platform has no routes, or one of them is part of the train's route.
Admits(platform, train) ==
    \/ platform.routes = <<>>
    \/ \E r \in DOMAIN platform.routes : Includes(train.route, platform.routes[r])

\* The train lies inside the block, which has platforms and admits its route.
InsideStation(block, train) ==
    /\ block.platforms /= <<>>
    /\ RouteAllowed(block.routes, train.route)
    /\ isPointInPolygon(train.latitude, train.longitude, block.polygon)

\* C25 as stated: for a train inside a block with platforms the first
\* platform of the list whose stop_ids meet the stops of the train is
\* chosen, before any default platform whatever the bearing.
C25_FirstStopPlatformChosen ==
    [][event' = "searched" =>
          \A i \in DOMAIN trackedTrains : \A b \in DOMAIN trackBlocks :
              LET train == trackedTrains[i]
                  platforms == trackBlocks[b].platforms
                  meeting == {p \in DOMAIN platforms : StopsMeet(platforms[p], train)}
              IN (InsideStation(trackBlocks[b], train) /\ meeting /= {}) =>
                    trackedTrains'[i].currentBlock =
                        platforms[FirstIndex(meeting)].blockNumber]_vars

\* C25, amended: the platform chosen is the first of the list that admits
\* the route of the train and whose stop_ids meet the stops of the train.
C25_FirstAdmittingStopPlatformChosen ==
    [][event' = "searched" =>
          \A i \in DOMAIN trackedTrains : \A b \in DOMAIN trackBlocks :
              LET train == trackedTrains[i]
                  platforms == trackBlocks[b].platforms
                  meeting == {p \in DOMAIN platforms :
                                 /\ Admits(platforms[p], train)
                                 /\ StopsMeet(platforms[p], train)}
              IN (InsideStation(trackBlocks[b], train) /\ meeting /= {}) =>
                    trackedTrains'[i].currentBlock =
                        platforms[FirstIndex(meeting)].blockNumber]_vars

\* The search pass has chosen the platform of stop S4 for a train heading
\* 90 degrees, although the list names the default platform of that bearing
\* first and, before the chosen one, a platform of the stop that does not
\* admit the route of the train.
C25_Witness ==
    /\ event = "searched"
    /\ trackBlocks[1].platforms[1] = PlatformPool[4]
    /\ trackBlocks[1].platforms[2] = PlatformPool[3]
    /\ trackBlocks[1].platforms[3] = PlatformPool[2]
    /\ trackedTrains[1].route = "EAST-201"
    /\ trackedTrains[1].bearing = 90
    /\ trackedTrains[1].currentBlock = 304
    /\ trackedTrains[1].previousBlock = 0

\* The rules of a list whose range contains block number B.
RulesFor(rules, B) ==
    {r \in DOMAIN rules : rules[r].start <= B /\ B <= rules[r].end}

\* B plus the offset of the first rule whose range contains B; B itself
\* when there is none.
RemappedOnce(rules, B) ==
    IF RulesFor(rules, B) = {} THEN B
    ELSE B + rules[CHOOSE r \in RulesFor(rules, B) :
                      \A q \in RulesFor(rules, B) : r <= q].offset

\* C26: on every board, both block numbers of every published update are
\* the previousBlock and the currentBlock of its train, each plus the offset
\* of the first rule of the board whose range contains it, applied once,
\* and unchanged when no rule matches.
C26_RemapFirstRuleOnce ==
    event = "tick" =>
        \A index \in DOMAIN ledRailsAPIs :
            \A u \in Range(ledRailsAPIs[index].output.updates) :
                \E k \in DOMAIN trackedTrains :
                    /\ trackedTrains[k].trainId = u.train
                    /\ u.b = <<RemappedOnce(ledRailsAPIs[index].blockRemap,
                                            trackedTrains[k].previousBlock),
                               RemappedOnce(ledRailsAPIs[index].blockRemap,
                                            trackedTrains[k].currentBlock)>>

\* A train sighted for the first time at the station is published as
\* [0,303] by the board without rules, as [0,203] by the board whose only
\* rule moves 303, and as [40,203] by the board whose rules also cover 0
\* and 203; another train is moved by the earlier of two rules that match.
C26_Witness ==
    /\ event = "tick"
    /\ \E u \in Range(ledRailsAPIs[1].output.updates) : u.b = <<0, 303>>
    /\ \E u \in Range(ledRailsAPIs[2].output.updates) : u.b = <<0, 203>>
    /\ \E u \in Range(ledRailsAPIs[3].output.updates) : u.b = <<40, 203>>
    /\ \E u \in Range(ledRailsAPIs[3].output.updates) : u.b[2] = 41

\* The output of rule r, for some block number of its range, falls into the
\* range of rule q.
FeedsInto(rules, r, q) ==
    \E B \in rules[r].start..rules[r].end :
        /\ rules[q].start <= B + rules[r].offset
        /\ B + rules[r].offset <= rules[q].end

\* C27 as stated: when no rule of the list has an output in the range of
\* another rule, remapping the block numbers twice gives what remapping
\* them once gives.
C27_RemapIdempotentOtherRules ==
    (/\ event = "twice"
     /\ \A r, q \in DOMAIN ledRailsAPIs[1].blockRemap :
           r /= q => ~FeedsInto(ledRailsAPIs[1].blockRemap, r, q))
    => published.next = published.prev

\* C27, amended: when no rule of the list has an output in the range of any
\* rule, its own range included, remapping the block numbers twice gives
\* what remapping them once gives.
C27_RemapIdempotentAllRules ==
    (/\ event = "twice"
     /\ \A r, q \in DOMAIN ledRailsAPIs[1].blockRemap :
           ~FeedsInto(ledRailsAPIs[1].blockRemap, r, q))
    => published.next = published.prev

\* Two rules, none with an output in the range of a rule, have remapped
\* both block numbers of an update, each by another rule, and a second
\* remap has run.
C27_Witness ==
    /\ event = "twice"
    /\ Len(ledRailsAPIs[1].blockRemap) = 2
    /\ \A r, q \in DOMAIN ledRailsAPIs[1].blockRemap :
          ~FeedsInto(ledRailsAPIs[1].blockRemap, r, q)
    /\ LET raw == observed.output.updates[1].b
           out == ledRailsAPIs[1].output.updates[1].b
       IN /\ out[1] /= raw[1]
          /\ out[2] /= raw[2]
          /\ out[1] - raw[1] /= out[2] - raw[2]

\* The routes of the config's colors, in the order the file declares them.
DeclaredRoutes == [k \in DOMAIN config.colors |-> config.colors[k].route]

\* Every board gives the routes of the list order the ids 0, 1, 2, ... in
\* that order and holds the color of each route under its id.
ColorsFollow(order) ==
    \A index \in DOMAIN ledRailsAPIs :
        LET api == ledRailsAPIs[index]
        IN /\ DOMAIN api.routeToColorId = Range(order)
           /\ DOMAIN api.output.colors = 0..(Len(order) - 1)
           /\ \A k \in DOMAIN order :
                 /\ api.routeToColorId[order[k]] = k - 1
                 /\ api.output.colors[k - 1] = RgbOf(order[k])

NumeralsFirst(order) ==
    LET numerals == {k \in DOMAIN order : order[k] \in {"2", "10"}}
        twoFirst == IF \E k \in numerals : order[k] = "2" THEN <<"2">> ELSE <<>>
        tenNext == IF \E k \in numerals : order[k] = "10" THEN <<"10">> ELSE <<>>
    IN twoFirst \o tenNext \o SelectSeq(order, LAMBDA route : route \notin {"2", "10"})

LoadedAt(loadedBlocks, block) ==
    CHOOSE k \in DOMAIN loadedBlocks : loadedBlocks[k] = block

\* Block a has to come before block b: a has routes and b has none, or
\* they agree in that and a has priority and b has none, or they agree in
\* both and a was loaded first.
OrderedBefore(loadedBlocks, a, b) ==
    IF (a.routes /= <<>>) /= (b.routes /= <<>>) THEN a.routes /= <<>>
    ELSE IF a.priority /= b.priority THEN a.priority
    ELSE LoadedAt(loadedBlocks, a) < LoadedAt(loadedBlocks, b)

\* C29: the map iterates every block with routes before every block
\* without, among these every priority block before every other block, and
\* otherwise in load order, also when placemarks share a block number.
C29_MapOrderRoutesPriorityLoad ==
    [][event' = "loaded" =>
          \A i, j \in DOMAIN trackBlocks' :
              i < j => OrderedBefore(trackBlocks, trackBlocks'[i], trackBlocks'[j])]_vars

\* The vehicle of a pair that is to be invisible: the first one if it alone
\* of the two has no route, the second one otherwise.
RoutelessOfPair(pair) ==
    {n \in 1..2 :
        \E ka \in PairEntities(pair, 1), kb \in PairEntities(pair, 2) :
            LET onlyFirst == /\ ~TruthyStr(trainEntities[ka].route_id)
                             /\ TruthyStr(trainEntities[kb].route_id)
            IN n = IF onlyFirst THEN 1 ELSE 2}

\* C30: of every pair the invisible vehicle is the one with the empty or
\* absent route_id when exactly one of the two has no route, and the second
\* id of the sorted pair otherwise.
C30_RoutelessVehicleInvisible ==
    event = "tick" =>
        \A p \in DOMAIN trainPairs :
            PairInvisible(trainPairs[p]) = RoutelessOfPair(trainPairs[p])

\* A train the detect phase may consider at time timeNow.
PairCandidate(train, timeNow) ==
    /\ train.speed /= Undefined /\ train.speed >= 3
    /\ train.latitude /= Undefined /\ train.longitude /= Undefined
    /\ train.timestamp /= Undefined
    /\ train.timestamp >= timeNow - 30

\* The five checks on two trains; the implied speed is compared without
\* division.
PairChecksPassed(a, b) ==
    LET d == calculateDistance(a.latitude, a.longitude, b.latitude, b.longitude)
        adjusted == IF d - 144 > 0 THEN d - 144 ELSE 0
        timeDiff == IF a.timestamp >= b.timestamp THEN a.timestamp - b.timestamp
                    ELSE b.timestamp - a.timestamp
        speedDiff == IF a.speed >= b.speed THEN a.speed - b.speed
                     ELSE b.speed - a.speed
    IN /\ adjusted <= 144
       /\ adjusted <= 35 * timeDiff
       /\ speedDiff <= 3
       /\ a.bearing /= Undefined /\ b.bearing /= Undefined
       /\ calculateBearingDifference(a.bearing, b.bearing) <= 5
       /\ \/ ~TruthyStr(a.route_id)
          \/ ~TruthyStr(b.route_id)
          \/ a.route_id = b.route_id

\* C31: a pair that a tick adds to the pair list joins two trains of the
\* filtered train set that are both candidates and pass the five checks,
\* also when their timestamps are equal or a bearing is missing.
C31_PairsAddedPassChecks ==
    [][event' = "tick" =>
          \A p \in DOMAIN trainPairs' :
              trainPairs'[p] \notin Range(trainPairs) =>
                  \E ka, kb \in DOMAIN trainEntities' :
                      /\ trainEntities'[ka].id = trainPairs'[p].vehicleIds[1]
                      /\ trainEntities'[kb].id = trainPairs'[p].vehicleIds[2]
                      /\ PairCandidate(trainEntities'[ka], now')
                      /\ PairCandidate(trainEntities'[kb], now')
                      /\ PairChecksPassed(trainEntities'[ka], trainEntities'[kb])]_vars

\* The bearings are at most 90 degrees apart, the shortest way round.
WithinQuarterTurn(bearingA, bearingB) ==
    LET d == IF bearingA >= bearingB THEN bearingA - bearingB
             ELSE bearingB - bearingA
    IN d <= 90 \/ 360 - d <= 90

\* The default platforms of a list whose bearing is within 90 degrees of
\* the bearing of the train.
FacingPlatforms(platforms, train) ==
    {p \in DOMAIN platforms :
        /\ platforms[p].isDefault
        /\ platforms[p].bearing \in 0..359
        /\ train.bearing \in 0..359
        /\ WithinQuarterTurn(platforms[p].bearing, train.bearing)}

\* C32: for a train inside a block with platforms of which none meets its
\* stops, the first default platform whose bearing is within 90 degrees of
\* the bearing of the train is chosen, for all bearings in 0..359.
C32_FirstFacingPlatformChosen ==
    [][event' = "searched" =>
          \A i \in DOMAIN trackedTrains : \A b \in DOMAIN trackBlocks :
              LET train == trackedTrains[i]
                  platforms == trackBlocks[b].platforms
                  meeting == {p \in DOMAIN platforms : StopsMeet(platforms[p], train)}
                  facing == FacingPlatforms(platforms, train)
              IN (InsideStation(trackBlocks[b], train) /\ meeting = {} /\ facing /= {}) =>
                    trackedTrains'[i].currentBlock =
                        platforms[FirstIndex(facing)].blockNumber]_vars

\* The roster trains the sync was handed an entity of.
SyncedNow(trains, gtfsTrains) ==
    {i \in DOMAIN trains :
        \E k \in DOMAIN gtfsTrains : TrainIdOf(gtfsTrains[k]) = trains[i].trainId}

\* No stop of the list departed more than ten minutes before clock, and no
\* stopId is listed twice.
StopsPruned(stops, clock) ==
    /\ \A a \in DOMAIN stops :
          stops[a].departureTime = 0 \/ stops[a].departureTime >= clock - 600
    /\ \A a, b \in DOMAIN stops : stops[a].stopId = stops[b].stopId => a = b

\* C33: after a roster sync every train that was synced lists no stop with
\* a non-zero departureTime more than 10 minutes before now and no stopId
\* twice, with or without a trip update, and keeps its stops of
\* departureTime 0 that the trip update does not name.
C33_SyncPrunesOldStops ==
    [][event' = "sync" =>
          \A i \in SyncedNow(trackedTrains', replies'[1].entity) :
              /\ StopsPruned(trackedTrains'[i].stops, now')
              /\ \A a \in (IF i \in DOMAIN trackedTrains
                            THEN DOMAIN trackedTrains[i].stops ELSE {}) :
                    LET stop == trackedTrains[i].stops[a]
                        named == \E k \in DOMAIN replies'[1].entity :
                                     \E u \in DOMAIN replies'[1].entity[k].stopTimeUpdate :
                                         replies'[1].entity[k].stopTimeUpdate[u].stopId
                                             = stop.stopId
                    IN (stop.departureTime = 0 /\ ~named) =>
                           stop \in Range(trackedTrains'[i].stops)]_vars

\* The entity carries a timestamp that is at most the eviction age before
\* clock.
StampedWithin(entity, hours, clock) ==
    /\ entity.timestamp /= Undefined
    /\ (clock - entity.timestamp) * 1000 <= hours * 3600 * 1000

\* C34: right after removeStaleVehicles the store holds exactly the
\* entities it held before whose timestamp is at most
\* removeStaleVehiclesHours old, in their order; entities without a
\* timestamp are gone and no fresh entity is.
C34_EvictionKeepsExactlyFresh ==
    [][event' = "evict" =>
          entities' = SelectSeq(entities,
                          LAMBDA entity :
                              StampedWithin(entity, config.removeStaleVehiclesHours,
                                            now))]_vars

\* The eviction has run on a store of an entity stamped exactly one hour
\* ago, an entity stamped a second earlier and an entity without a
\* timestamp, and has kept the first of them only.
C34_Witness ==
    /\ event = "evict"
    /\ scenario = "evict"
    /\ Len(replies[1].entity) = 3
    /\ replies[1].entity[1].timestamp = now - 3601
    /\ replies[1].entity[2].timestamp = now - 3600
    /\ replies[1].entity[3].timestamp = Undefined
    /\ entities = <<replies[1].entity[2]>>

\* C35: for every integer N, positive or negative, the token 'Ndeg' of a
\* platform line gives the platform a bearing in 0..359.
C35_TokenBearingInRange ==
    event = "parsed" =>
        \A b \in DOMAIN trackBlocks : \A p \in DOMAIN trackBlocks[b].platforms :
            trackBlocks[b].platforms[p].bearing \in 0..359

\* C36: at the end of a tick, after the pair detector and the alt-block
\* pass have added their ids, invisibleTrainIds holds no train id twice.
C36_InvisibleIdsOnce ==
    event = "tick" =>
        \A i, j \in DOMAIN invisibleTrains :
            invisibleTrains[i] = invisibleTrains[j] => i = j

\* A tick has ended with a pair whose second vehicle the pair detector
\* made invisible and with a second id that the alt-block pass added for a
\* train of the same block.
C36_Witness ==
    /\ event = "tick"
    /\ Len(trainPairs) = 1
    /\ Len(invisibleTrains) = 2
    /\ invisibleTrains[1] = trainPairs[1].vehicleIds[2]
    /\ invisibleTrains[2] /= invisibleTrains[1]
    /\ \E i, j \in DOMAIN trackedTrains :
          /\ trackedTrains[i].trainId = invisibleTrains[1]
          /\ trackedTrains[j].trainId = invisibleTrains[2]
          /\ trackedTrains[i].currentBlock = trackedTrains[j].currentBlock
          /\ trackedTrains[i].currentBlock /= Undefined

\* Every request of the tick failed in the network or was answered with a
\* status other than 2xx.
AllFetchesFailed(urlReplies) ==
    /\ urlReplies /= <<>>
    /\ \A k \in DOMAIN urlReplies : urlReplies[k].kind \in {"network", "status"}

\* C37: a tick all of whose fetches fail with a network error or a non-2xx
\* status leaves the entity store as it was and still runs to its end on
\* the prior state: without a trainFilter the train set is the store, no
\* train leaves the roster, a train not seen within displayThreshold has no
\* block, and every board publishes an output stamped with the time of the
\* tick.
C37_FailedFetchTickStillRuns ==
    [][(ticks' = ticks + 1 /\ AllFetchesFailed(replies')) =>
          /\ event' = "tick"
          /\ entities' = entities
          /\ config.trainFilter = "absent" => trainEntities' = entities
          /\ Len(trackedTrains') = Len(trackedTrains)
          /\ \A i \in DOMAIN trackedTrains' :
                /\ trackedTrains'[i].trainId = trackedTrains[i].trainId
                /\ trackedTrains'[i].timestamp < now' - config.displayThreshold
                      => trackedTrains'[i].currentBlock = Undefined
          /\ \A index \in DOMAIN ledRailsAPIs' :
                /\ ledRailsAPIs'[index].output.timestamp = now'
                /\ ledRailsAPIs'[index].output.timestamp
                      > ledRailsAPIs[index].output.timestamp]_vars

\* A tick whose only request got a status other than 2xx has ended: the
\* store still holds the vehicle of the tick before, and the boards show
\* it under the time of this tick.
C37_Witness ==
    /\ event = "tick"
    /\ scenario = "outage"
    /\ replies = <<Failure("status")>>
    /\ entities /= <<>>
    /\ trackedTrains /= <<>>
    /\ \A index \in DOMAIN ledRailsAPIs :
          /\ ledRailsAPIs[index].output.timestamp = now
          /\ ledRailsAPIs[index].output.updates /= <<>>

\* The roster entry of the vehicle a feed entity reports; 0 when there is
\* none.
RosterEntry(entity) == FindTrain(trackedTrains, TrainIdOf(entity))

\* The entities of the train set that the tick's fetch reported with the
\* time of the tick and that have a roster entry.
ReportedNow ==
    {i \in DOMAIN trainEntities :
        /\ TimestampOf(trainEntities[i]) = now
        /\ RosterEntry(trainEntities[i]) /= 0}

\* C38: after the roster sync of a tick every roster train whose vehicle is
\* in the train set carries the timestamp of that entity, so a train that
\* the feed reports with the time of the tick inside a block of the map,
\* standing or moving, keeps a block through the staleness pass and is
\* recent enough for the output of every board.
C38_ReportedTrainKeepsTimestamp ==
    event = "tick" =>
        /\ \A i \in DOMAIN trainEntities :
              RosterEntry(trainEntities[i]) /= 0 =>
                  trackedTrains[RosterEntry(trainEntities[i])].timestamp
                      = TimestampOf(trainEntities[i])
        /\ \A i \in ReportedNow :
              LET train == trackedTrains[RosterEntry(trainEntities[i])]
              IN /\ train.timestamp >= now - config.displayThreshold
                 /\ train.currentBlock /= Undefined
                 /\ \A index \in DOMAIN ledRailsAPIs :
                       train.timestamp >= now - ledRailsAPIs[index].displayThreshold

\* The train set holds an entity of the vehicle.
InTrainSet(trains, vehicleId) ==
    \E i \in DOMAIN trains : trains[i].vid = vehicleId

\* C39: a pair does not stay in the pair list once one of its vehicles has
\* left the train set: a tick whose train set holds no entity of a vehicle
\* ends without a pair that names the vehicle, so the other vehicle of the
\* pair is not invisible on account of it.
C39_PairOfAbsentVehicleRemoved ==
    event = "tick" =>
        \A k \in DOMAIN trainPairs :
            \A a \in DOMAIN trainPairs[k].vehicleIds :
                InTrainSet(trainEntities, trainPairs[k].vehicleIds[a])

\* In the model every tick keeps a pair one of whose vehicles its train set
\* lacks.
PairOfAbsentVehicleKept ==
    [][event' = "tick" =>
          \A k \in DOMAIN trainPairs :
              (\E a \in DOMAIN trainPairs[k].vehicleIds :
                  ~InTrainSet(trainEntities', trainPairs[k].vehicleIds[a]))
                  => \E j \in DOMAIN trainPairs' : trainPairs'[j] = trainPairs[k]]_vars

\* C40: every update a board emits for a train whose timestamp is not later
\* than now has a time offset t that is a whole number with
\* 0 <= t <= update, the update interval the payload states, with and
\* without randomizeTimeOffset and for every updateInterval from 1 up.
C40_TimeOffsetWithinInterval ==
    event = "led" =>
        \A index \in DOMAIN ledRailsAPIs :
            LET output == ledRailsAPIs[index].output
            IN \A k \in DOMAIN output.updates :
                  trackedTrains[FindTrain(trackedTrains, output.updates[k].train)].timestamp
                          <= now
                      => output.updates[k].t \in 0..output.update

\* Both boards show a train that changed block and was reported at the time
\* of the tick: the board without randomizeTimeOffset with the largest
\* offset, the update interval, the randomizing board with a drawn offset
\* of at least 1.
C40_Witness ==
    /\ event = "led"
    /\ scenario = "offset"
    /\ trackedTrains[1].timestamp = now
    /\ trackedTrains[1].previousBlock /= trackedTrains[1].currentBlock
    /\ ~ledRailsAPIs[1].randomizeTimeOffset
    /\ ledRailsAPIs[1].output.updates /= <<>>
    /\ ledRailsAPIs[1].output.updates[1].t = ledRailsAPIs[1].output.update
    /\ ledRailsAPIs[2].randomizeTimeOffset
    /\ ledRailsAPIs[2].output.updates /= <<>>
    /\ ledRailsAPIs[2].output.updates[1].t >= 1
    /\ ledRailsAPIs[2].output.updates[1].t = ledRailsAPIs[2].output.update - 1

====
